---------------------------- MODULE Spec2Model ----------------------------
(***************************************************************************)
(* Workflow execution engine: backend/workflow_runner.py (WorkflowRunner)  *)
(* and the two callers of backend/main.py that share one runner instance.  *)
(***************************************************************************)
EXTENDS Integers, Sequences, FiniteSets, TLC

(***************************************************************************)
(* Bounds of the graphs handed to build_execution_graph.                   *)
(***************************************************************************)
MaxNodes == 3
MaxEdges == 3

\* Bound of the thread switches followed between two runs of one runner.
MaxPreemptions == 1

\* Bound of the workflows the create endpoint stores.
MaxWorkflows == 2

\* Bound of the schedules the create endpoint stores.
MaxSchedules == 2

\* A node list need not carry every id, so an edge may name an id that no node
\* of the list has (a dangling reference).
NodeIds == {"A", "B", "C"}

SeqsUpTo(S, n) == UNION {[1..k -> S] : k \in 0..n}

Range(s) == {s[i] : i \in 1..Len(s)}

(***************************************************************************)
(* build_execution_graph (workflow_runner.py 35-72)                        *)
(***************************************************************************)
CycleMessage == "Workflow contains cycles and cannot be executed"

\* Keys of a dict filled by "for node in nodes: d[node['id']] = ..." in
\* insertion order: each id at the place of its first appearance.
RECURSIVE DictKeys(_)
DictKeys(nodes) ==
    IF nodes = <<>> THEN <<>>
    ELSE LET front == DictKeys(SubSeq(nodes, 1, Len(nodes) - 1))
             id == nodes[Len(nodes)].id
         IN IF id \in Range(front) THEN front ELSE Append(front, id)

\* Lines 42-45: graph[node_id] = [], in_degree[node_id] = 0.
InitGraph(nodes) ==
    [graph |-> [id \in Range(DictKeys(nodes)) |-> <<>>],
     in_degree |-> [id \in Range(DictKeys(nodes)) |-> 0],
     raised |-> "none"]

\* Lines 48-53, one edge: skipped when its source is no node, KeyError on
\* in_degree[target] when its target is no node.
AddEdge(g, edge) ==
    IF g.raised # "none" THEN g
    ELSE IF edge.source \notin DOMAIN g.graph THEN g
    ELSE IF edge.target \notin DOMAIN g.in_degree
         THEN [graph |-> [g.graph EXCEPT ![edge.source] = Append(@, edge.target)],
               in_degree |-> g.in_degree,
               raised |-> edge.target]
    ELSE [graph |-> [g.graph EXCEPT ![edge.source] = Append(@, edge.target)],
          in_degree |-> [g.in_degree EXCEPT ![edge.target] = @ + 1],
          raised |-> "none"]

RECURSIVE AddEdges(_, _)
AddEdges(g, edges) ==
    IF edges = <<>> THEN g
    ELSE AddEdges(AddEdge(g, Head(edges)), Tail(edges))

\* Line 56: the zero in-degree ids in dict order.
RECURSIVE InitialQueue(_, _)
InitialQueue(keys, in_degree) ==
    IF keys = <<>> THEN <<>>
    ELSE IF in_degree[Head(keys)] = 0
         THEN <<Head(keys)>> \o InitialQueue(Tail(keys), in_degree)
         ELSE InitialQueue(Tail(keys), in_degree)

\* Line 60: queue.pop(0).
QueuePopLast(queue) ==
    [current |-> queue[Len(queue)], rest |-> SubSeq(queue, 1, Len(queue) - 1)]

QueuePop(queue) == [current |-> Head(queue), rest |-> Tail(queue)]

\* Line 65: the neighbour is enqueued when its in-degree reaches zero.
ReachesOne(in_degree, neighbor) == in_degree[neighbor] = 1

ReachesZero(in_degree, neighbor) == in_degree[neighbor] = 0

\* Lines 63-66: the neighbours of the dequeued node, in adjacency order.
RECURSIVE Relax(_, _, _)
Relax(neighbors, in_degree, queue) ==
    IF neighbors = <<>> THEN [in_degree |-> in_degree, queue |-> queue]
    ELSE LET n == Head(neighbors)
             deg == [in_degree EXCEPT ![n] = @ - 1]
         IN Relax(Tail(neighbors), deg,
                  IF ReachesZero(deg, n) THEN Append(queue, n) ELSE queue)

\* Lines 59-66: the while loop.
RECURSIVE KahnLoop(_, _, _, _)
KahnLoop(queue, execution_order, in_degree, graph) ==
    IF queue = <<>> THEN execution_order
    ELSE LET p == QueuePop(queue)
             r == Relax(graph[p.current], in_degree, p.rest)
         IN KahnLoop(r.queue, Append(execution_order, p.current), r.in_degree, graph)

\* Line 69.
CycleCheckLonger(execution_order, nodes) == Len(execution_order) > Len(nodes)

CycleCheck(execution_order, nodes) == Len(execution_order) # Len(nodes)

Raise(type, message) == [ok |-> FALSE, order |-> <<>>, exc |-> type, error |-> message]

\* str(KeyError(k)) is the repr of the key.
KeyErrorMessage(k) == "'" \o k \o "'"

build_execution_graph(nodes, edges) ==
    LET g == AddEdges(InitGraph(nodes), edges)
    IN IF g.raised # "none" THEN Raise("KeyError", KeyErrorMessage(g.raised))
       ELSE LET execution_order ==
                    KahnLoop(InitialQueue(DictKeys(nodes), g.in_degree),
                             <<>>, g.in_degree, g.graph)
            IN IF CycleCheck(execution_order, nodes)
               THEN Raise("ValueError", CycleMessage)
               ELSE [ok |-> TRUE, order |-> execution_order, exc |-> "none", error |-> ""]

(***************************************************************************)
(* Python values.  A dict is a function on its keys; d.get(k, default) is  *)
(* Get.  Node values are strings, str() of a string is the string itself   *)
(* and None is kept apart from every string a node can produce.            *)
(***************************************************************************)
EmptyDict == [k \in {} |-> ""]

Get(d, k, default) == IF k \in DOMAIN d THEN d[k] ELSE default

\* d[k] = v
Put(d, k, v) == [x \in (DOMAIN d) \cup {k} |-> IF x = k THEN v ELSE d[x]]

\* d.update(e)
Update(d, e) == [x \in (DOMAIN d) \cup (DOMAIN e) |-> IF x \in DOMAIN e THEN e[x] ELSE d[x]]

PyNone == "<None>"

Str(v) == IF v = PyNone THEN "None" ELSE v

\* "not x" for the values a pluginId can take.
Falsy(v) == v = PyNone \/ v = ""

\* repr of a list of strings, as an f-string prints execution_order.
RECURSIVE JoinRepr(_)
JoinRepr(s) ==
    IF s = <<>> THEN ""
    ELSE IF Len(s) = 1 THEN "'" \o s[1] \o "'"
    ELSE "'" \o s[1] \o "', " \o JoinRepr(Tail(s))

ListRepr(s) == "[" \o JoinRepr(s) \o "]"

(***************************************************************************)
(* Values whose type the handlers inspect (execute_condition 301-331,      *)
(* format_as_table 343-358).  A value is a record of its type t and its    *)
(* content v: a str is the sequence of its characters, a float is kept in  *)
(* tenths, a list is the sequence of its elements and a dict the sequence  *)
(* of its <<key, value>> items in insertion order, keys being strs given   *)
(* as character sequences.                                                 *)
(***************************************************************************)
PyString(chars) == [t |-> "str", v |-> chars]

PyInt(n) == [t |-> "int", v |-> n]

\* The float tenths / 10.
PyFloat(tenths) == [t |-> "float", v |-> tenths]

\* The int 10 ** exponent, for exponents beyond the range of a float.
PyHugeInt(exponent) == [t |-> "hugeint", v |-> exponent]

PyList(items) == [t |-> "list", v |-> items]

PyDict(items) == [t |-> "dict", v |-> items]

NoneValue == [t |-> "none", v |-> 0]

\* The str '' that lines 305 and 309 give as defaults.
EmptyString == PyString(<<>>)

\* The characters put together as one string.
RECURSIVE Concat(_)
Concat(chars) ==
    IF chars = <<>> THEN ""
    ELSE IF Len(chars) = 1 THEN chars[1]
    ELSE LET half == Len(chars) \div 2
         IN Concat(SubSeq(chars, 1, half)) \o Concat(SubSeq(chars, half + 1, Len(chars)))

DigitChar(d) == <<"0", "1", "2", "3", "4", "5", "6", "7", "8", "9">>[d + 1]

RECURSIVE NatChars(_)
NatChars(n) == IF n < 10 THEN <<DigitChar(n)>> ELSE NatChars(n \div 10) \o <<DigitChar(n % 10)>>

IntChars(n) == IF n < 0 THEN <<"-">> \o NatChars(0 - n) ELSE NatChars(n)

FloatChars(tenths) ==
    LET magnitude == IF tenths < 0 THEN 0 - tenths ELSE tenths
    IN (IF tenths < 0 THEN <<"-">> ELSE <<>>)
       \o NatChars(magnitude \div 10) \o <<".">> \o <<DigitChar(magnitude % 10)>>

Zeros(n) == [i \in 1..n |-> "0"]

\* repr(v) and the ", "-joined reprs of list elements and dict items.
RECURSIVE PyReprChars(_), ReprItems(_), ReprPairs(_)
PyReprChars(value) ==
    CASE value.t = "str" -> <<"'">> \o value.v \o <<"'">>
      [] value.t = "int" -> IntChars(value.v)
      [] value.t = "float" -> FloatChars(value.v)
      [] value.t = "hugeint" -> <<"1">> \o Zeros(value.v)
      [] value.t = "none" -> <<"N", "o", "n", "e">>
      [] value.t = "list" -> <<"[">> \o ReprItems(value.v) \o <<"]">>
      [] value.t = "dict" -> <<"{">> \o ReprPairs(value.v) \o <<"}">>

ReprItems(items) ==
    IF items = <<>> THEN <<>>
    ELSE IF Len(items) = 1 THEN PyReprChars(items[1])
    ELSE PyReprChars(items[1]) \o <<",", " ">> \o ReprItems(Tail(items))

ReprPairs(items) ==
    LET first == <<"'">> \o items[1][1] \o <<"'", ":", " ">> \o PyReprChars(items[1][2])
    IN IF items = <<>> THEN <<>>
       ELSE IF Len(items) = 1 THEN first
       ELSE first \o <<",", " ">> \o ReprPairs(Tail(items))

\* str(v): a str is itself, every other value its repr.
PyStrChars(value) == IF value.t = "str" THEN value.v ELSE PyReprChars(value)

PyStr(value) == Concat(PyStrChars(value))

\* needle in haystack, for strs.
IsSubstring(needle, haystack) ==
    \E i \in 0..(Len(haystack) - Len(needle)) :
        SubSeq(haystack, i + 1, i + Len(needle)) = needle

Digits == {"0", "1", "2", "3", "4", "5", "6", "7", "8", "9"}

DigitValue(c) == CHOOSE d \in 0..9 : DigitChar(d) = c

AllDigits(chars) == \A i \in 1..Len(chars) : chars[i] \in Digits

RECURSIVE NatOf(_)
NatOf(chars) ==
    IF chars = <<>> THEN 0
    ELSE NatOf(SubSeq(chars, 1, Len(chars) - 1)) * 10 + DigitValue(chars[Len(chars)])

RECURSIVE Pow10(_)
Pow10(k) == IF k = 0 THEN 1 ELSE 10 * Pow10(k - 1)

\* str.strip() for the blank.
RECURSIVE Strip(_)
Strip(chars) ==
    IF chars = <<>> THEN chars
    ELSE IF chars[1] = " " THEN Strip(Tail(chars))
    ELSE IF chars[Len(chars)] = " " THEN Strip(SubSeq(chars, 1, Len(chars) - 1))
    ELSE chars

\* A float as the fraction num / den, or the exception float() raises.
FloatOk(num, den) == [ok |-> TRUE, num |-> num, den |-> den, exc |-> "none", error |-> ""]

FloatRaises(exc, message) == [ok |-> FALSE, num |-> 0, den |-> 1, exc |-> exc, error |-> message]

CouldNotConvert(chars) ==
    FloatRaises("ValueError", "could not convert string to float: '" \o Concat(chars) \o "'")

\* float() of digits with at most one point, strs of the forms "5", "5.",
\* ".5" and "5.0"; strs with an exponent, an underscore or the words inf and
\* nan are not among the values the model draws.
UnsignedFloat(chars, all, sign) ==
    LET points == {i \in 1..Len(chars) : chars[i] = "."}
    IN IF points = {}
       THEN IF chars # <<>> /\ AllDigits(chars)
            THEN FloatOk(sign * NatOf(chars), 1)
            ELSE CouldNotConvert(all)
       ELSE IF Cardinality(points) = 1
       THEN LET p == CHOOSE i \in points : TRUE
                whole == SubSeq(chars, 1, p - 1)
                fraction == SubSeq(chars, p + 1, Len(chars))
            IN IF AllDigits(whole) /\ AllDigits(fraction) /\ whole \o fraction # <<>>
               THEN FloatOk(sign * NatOf(whole \o fraction), Pow10(Len(fraction)))
               ELSE CouldNotConvert(all)
       ELSE CouldNotConvert(all)

StringToFloat(chars) ==
    LET stripped == Strip(chars)
    IN IF stripped # <<>> /\ stripped[1] = "-" THEN UnsignedFloat(Tail(stripped), chars, 0 - 1)
       ELSE IF stripped # <<>> /\ stripped[1] = "+" THEN UnsignedFloat(Tail(stripped), chars, 1)
       ELSE UnsignedFloat(stripped, chars, 1)

\* float(v) (lines 319 and 324).
PyFloatOf(value) ==
    CASE value.t = "str" -> StringToFloat(value.v)
      [] value.t = "int" -> FloatOk(value.v, 1)
      [] value.t = "float" -> FloatOk(value.v, 10)
      [] value.t = "hugeint" -> FloatRaises("OverflowError", "int too large to convert to float")
      [] value.t = "none" ->
           FloatRaises("TypeError",
                       "float() argument must be a string or a real number, not 'NoneType'")
      [] value.t \in {"list", "dict"} ->
           FloatRaises("TypeError",
                       "float() argument must be a string or a real number, not '"
                           \o value.t \o "'")

\* a == b for values: numbers by value, lists element by element, dicts key
\* by key, values of unlike types unequal.
RECURSIVE PyEq(_, _)
PyEq(a, b) ==
    CASE a.t = "int" /\ b.t = "float" -> a.v * 10 = b.v
      [] a.t = "float" /\ b.t = "int" -> a.v = b.v * 10
      [] a.t # b.t -> FALSE
      [] a.t = "list" /\ b.t = "list" ->
           /\ Len(a.v) = Len(b.v)
           /\ \A i \in 1..Len(a.v) : PyEq(a.v[i], b.v[i])
      [] a.t = "dict" /\ b.t = "dict" ->
           /\ Len(a.v) = Len(b.v)
           /\ \A i \in 1..Len(a.v) : \E j \in 1..Len(b.v) :
                 a.v[i][1] = b.v[j][1] /\ PyEq(a.v[i][2], b.v[j][2])
      [] OTHER -> a.v = b.v

\* a > b and a < b for floats.
FloatGreater(a, b) == a.num * b.den > b.num * a.den

FloatLess(a, b) == a.num * b.den < b.num * a.den

(***************************************************************************)
(* execute_node (workflow_runner.py 74-157).  The outcome of one call: the *)
(* value returned or the exception raised, and the entries the call logs   *)
(* after its first one, in order.                                          *)
(***************************************************************************)
Entry(level, message) == [level |-> level, message |-> message]

\* calls: the plugin ids plugin_manager.execute_plugin was called for (line 100);
\* received: the inputs handed to a plugin's execute (plugin_manager.py 111).
Returned(value, entries) ==
    [raised |-> FALSE, value |-> value, exc |-> "none", error |-> "", entries |-> entries,
     calls |-> <<>>, received |-> <<>>]

Raised(exc, message, entries) ==
    [raised |-> TRUE, value |-> PyNone, exc |-> exc, error |-> message, entries |-> entries,
     calls |-> <<>>, received |-> <<>>]

KnownActionTypes ==
    {"log", "http_request", "transform", "file_operation", "database", "condition", "delay"}

(***************************************************************************)
(* The plugin manager (plugin_manager.py).  main.py holds one              *)
(* WorkflowPluginManager; register_plugin, inherited from PluginManager,   *)
(* fills self.plugins, and nothing assigns to plugin_instances or, during  *)
(* a run, to plugin_configs.                                               *)
(***************************************************************************)
\* plugin_manager.py 17.
plugin_instances == EmptyDict

\* plugin_manager.py 18, 83-85: the configurations stored through the API.
plugin_configs == [p \in {"delay"} |-> [value |-> "stored"]]

\* plugin_manager.py 103: {**config, **input_data}, input_data wins.
merged_input(config, input_data) == Update(config, input_data)

\* plugin_manager.py 91-125: the dict returned and the input the plugin got.
execute_plugin(plugin_id, input_data) ==
    LET plugin == Get(plugin_instances, plugin_id, PyNone)
        config == Get(plugin_configs, plugin_id, EmptyDict)
    IN IF plugin = PyNone
       THEN [result |-> [success |-> "False", error |-> "Plugin not found: " \o plugin_id],
             received |-> <<>>]
       ELSE [result |-> plugin[merged_input(config, input_data)],
             received |-> <<merged_input(config, input_data)>>]

\* The parameters of execute_plugin besides self.
ExecutePluginArity == 2

\* Lines 89-102.  plugin_manager is the WorkflowPluginManager of main.py, whose
\* execute_plugin(self, plugin_id, input_data) takes two arguments: the call of
\* line 100 passes three.
PluginCallError ==
    "WorkflowPluginManager.execute_plugin() takes 3 positional arguments but 4 were given"

\* execute_plugin is a plain def: what it returns cannot be awaited.
AwaitError == "object dict can't be used in 'await' expression"

\* Line 100: await plugin_manager.execute_plugin(*args).
CallExecutePlugin(args) ==
    IF Len(args) # ExecutePluginArity
    THEN [Raised("TypeError", PluginCallError, <<>>) EXCEPT !.calls = <<args[1]>>]
    ELSE [Raised("TypeError", AwaitError, <<>>) EXCEPT
              !.calls = <<args[1]>>,
              !.received = execute_plugin(args[1], args[2]).received]

\* Lines 89-102 without the check of line 94.
PluginBranchUnchecked(node_id, data, input_data) ==
    CallExecutePlugin(<<Get(data, "pluginId", PyNone), input_data,
                        Get(data, "config", EmptyDict)>>)

PluginBranch(node_id, data, input_data) ==
    LET plugin_id == Get(data, "pluginId", PyNone)
        plugin_config == Get(data, "config", EmptyDict)
        missing == "Plugin ID not specified for node " \o node_id
    IN IF Falsy(plugin_id)
       THEN Raised("ValueError", missing, <<Entry("ERROR", missing)>>)
       ELSE CallExecutePlugin(<<plugin_id, input_data, plugin_config>>)

(***************************************************************************)
(* The files the server can read (aiofiles.open, line 224): path ->        *)
(* content.  Opening any other path for reading is a FileNotFoundError.    *)
(***************************************************************************)
Files == [p \in {"notes.txt"} |-> "text"]

FileNotFoundMessage(file_path) ==
    "[Errno 2] No such file or directory: '" \o file_path \o "'"

\* Lines 214-252, operation read.
execute_file_operation(config) ==
    LET operation == Get(config, "operation", "read")
        file_path == Get(config, "filePath", "")
    IN IF file_path = ""
       THEN Raised("ValueError", "File path is required for file operations", <<>>)
       ELSE CASE operation = "read" ->
                 IF file_path \in DOMAIN Files
                 THEN Returned(Files[file_path],
                          <<Entry("INFO", "File read from " \o file_path)>>)
                 ELSE Raised("FileNotFoundError", FileNotFoundMessage(file_path),
                          <<Entry("ERROR", "File operation failed: "
                                               \o FileNotFoundMessage(file_path))>>)

\* Lines 109-112 returning the value of the resolved input.
LogActionPassThrough(action_config, input_data) ==
    LET message == Get(action_config, "message", "No message provided")
    IN Returned(Get(input_data, "value", ""), <<Entry("INFO", "Log action: " \o message)>>)

\* Lines 109-112: the configured message is logged and returned.
LogAction(action_config, input_data) ==
    LET message == Get(action_config, "message", "No message provided")
    IN Returned(message, <<Entry("INFO", "Log action: " \o message)>>)

\* str.upper() of the method names a configuration gives.
Upper(s) ==
    CASE s \in {"get", "Get"} -> "GET"
      [] s \in {"post", "Post"} -> "POST"
      [] s \in {"put", "Put"} -> "PUT"
      [] s \in {"delete", "Delete"} -> "DELETE"
      [] s \in {"patch", "Patch"} -> "PATCH"
      [] s \in {"head", "Head"} -> "HEAD"
      [] OTHER -> s

\* Lines 172-180: the methods that have a branch.
SupportedMethods == {"GET", "POST", "PUT", "DELETE"}

\* Lines 181-182 passing over the method without a request.
UnsupportedMethodIgnored(method, url) ==
    Returned(PyNone, <<Entry("INFO", "Making " \o method \o " request to " \o url)>>)

\* Lines 169, 181-182: the request is announced, then the method is refused.
UnsupportedMethod(method, url) ==
    Raised("ValueError", "Unsupported HTTP method: " \o method,
           <<Entry("INFO", "Making " \o method \o " request to " \o url)>>)

\* Lines 159-191 up to the request: a request that is sent depends on the server.
execute_http_request(config) ==
    LET method == Upper(Get(config, "method", "GET"))
        url == Get(config, "url", "")
    IN CASE url = "" -> Raised("ValueError", "URL is required for HTTP request", <<>>)
         [] url # "" /\ method \notin SupportedMethods -> UnsupportedMethod(method, url)

\* Lines 333-341: asyncio.sleep returns at once for a duration of zero or less.
execute_delay(config) ==
    LET delay_seconds == Get(config, "delaySeconds", 1)
    IN Returned("Delayed for " \o ToString(delay_seconds) \o " seconds",
           <<Entry("INFO", "Starting delay for " \o ToString(delay_seconds) \o " seconds"),
             Entry("INFO", "Delay completed after " \o ToString(delay_seconds) \o " seconds")>>)

(***************************************************************************)
(* execute_condition (workflow_runner.py 301-331) over typed values.       *)
(***************************************************************************)
\* Line 312 comparing the values themselves.
ConditionEqualsByValue(input_value, expected_value) == PyEq(input_value, expected_value)

\* Line 312: str(input_value) == str(expected_value).
ConditionEquals(input_value, expected_value) ==
    PyStrChars(input_value) = PyStrChars(expected_value)

\* Lines 319 and 324: float(input_value) is evaluated first, and
\* float(expected_value) only when it raised nothing.
CompareAsFloats(input_value, expected_value, greater) ==
    LET a == PyFloatOf(input_value)
        b == PyFloatOf(expected_value)
    IN IF ~a.ok THEN [ok |-> FALSE, holds |-> FALSE, exc |-> a.exc, error |-> a.error]
       ELSE IF ~b.ok THEN [ok |-> FALSE, holds |-> FALSE, exc |-> b.exc, error |-> b.error]
       ELSE [ok |-> TRUE, exc |-> "none", error |-> "",
             holds |-> IF greater THEN FloatGreater(a, b) ELSE FloatLess(a, b)]

\* Lines 320 and 325: except (ValueError, TypeError).
CaughtInCondition == {"ValueError", "TypeError"}

execute_condition(input_data, config) ==
    LET condition_type == Get(config, "conditionType", "equals")
        input_key == Get(config, "inputKey", "value")
        expected_value == Get(config, "expectedValue", EmptyString)
        true_value == Get(config, "trueValue", "true")
        false_value == Get(config, "falseValue", "false")
        input_value == Get(input_data, input_key, EmptyString)
        Evaluated(result) ==
            Returned(result,
                     <<Entry("INFO", "Condition " \o condition_type \o " evaluated: "
                                         \o PyStr(input_value) \o " -> " \o result)>>)
        Choose(holds) == IF holds THEN true_value ELSE false_value
    IN CASE condition_type = "equals" ->
              Evaluated(Choose(ConditionEquals(input_value, expected_value)))
         [] condition_type = "not_equals" ->
              Evaluated(Choose(PyStrChars(input_value) # PyStrChars(expected_value)))
         [] condition_type = "contains" ->
              Evaluated(Choose(IsSubstring(PyStrChars(expected_value),
                                           PyStrChars(input_value))))
         [] condition_type \in {"greater_than", "less_than"} ->
              LET compared == CompareAsFloats(input_value, expected_value,
                                              condition_type = "greater_than")
              IN IF compared.ok THEN Evaluated(Choose(compared.holds))
                 ELSE IF compared.exc \in CaughtInCondition THEN Evaluated(false_value)
                 ELSE Raised(compared.exc, compared.error, <<>>)
         [] OTHER -> Evaluated(false_value)

(***************************************************************************)
(* format_as_table (workflow_runner.py 343-358) over typed values.         *)
(***************************************************************************)
\* type(v).__name__
TypeName(value) ==
    CASE value.t = "hugeint" -> "int"
      [] value.t = "none" -> "NoneType"
      [] OTHER -> value.t

\* row.get(header, '') for a dict.
ItemGet(items, key, default) ==
    IF \E i \in 1..Len(items) : items[i][1] = key
    THEN items[CHOOSE i \in 1..Len(items) : items[i][1] = key][2]
    ELSE default

\* " | ".join(strings)
RECURSIVE JoinColumns(_)
JoinColumns(strings) ==
    IF strings = <<>> THEN ""
    ELSE IF Len(strings) = 1 THEN strings[1]
    ELSE strings[1] \o " | " \o JoinColumns(Tail(strings))

RECURSIVE Dashes(_)
Dashes(n) == IF n = 0 THEN "" ELSE "-" \o Dashes(n - 1)

\* Line 352 counting the header's characters without its newline.
TableRuleOfHeaders(table) == Dashes(Len(table) - 1) \o "\n"

\* Line 352: "-" * len(table) + "\n", table being the header line with its
\* newline.
TableRule(table) == Dashes(Len(table)) \o "\n"

RECURSIVE TableRows(_)
TableRows(rows) ==
    IF rows = <<>> THEN "" ELSE JoinColumns(rows[1]) \o "\n" \o TableRows(Tail(rows))

format_as_table(data) ==
    IF data.t = "list" /\ Len(data.v) > 0 /\ data.v[1].t = "dict"
    THEN LET headers == [k \in 1..Len(data.v[1].v) |-> data.v[1].v[k][1]]
             NotDicts == {i \in 1..Len(data.v) : data.v[i].t # "dict"}
             rows == [i \in 1..Len(data.v) |->
                        [k \in 1..Len(headers) |->
                           PyStr(ItemGet(data.v[i].v, headers[k], EmptyString))]]
             table == JoinColumns([k \in 1..Len(headers) |-> Concat(headers[k])]) \o "\n"
         IN IF NotDicts # {}
            THEN Raised("AttributeError",
                        "'" \o TypeName(data.v[CHOOSE i \in NotDicts :
                                                  \A j \in NotDicts : i <= j])
                            \o "' object has no attribute 'get'", <<>>)
            ELSE Returned(table \o TableRule(table) \o TableRows(rows), <<>>)
    ELSE Returned(PyStr(data), <<>>)


\* Lines 132-134 raising for the unknown type.
UnknownActionTypeRaises(action_type) ==
    Raised("ValueError", "Unknown action type: " \o action_type, <<>>)

\* Lines 132-134.
UnknownActionType(action_type) ==
    Returned(PyNone, <<Entry("WARNING", "Unknown action type: " \o action_type)>>)

\* Lines 104-134, the action types whose outcome the configuration decides.
ActionBranch(node_config, input_data) ==
    LET action_type == Get(node_config, "actionType", "log")
        action_config == Get(node_config, "actionConfig", EmptyDict)
    IN CASE action_type = "log" -> LogAction(action_config, input_data)
         [] action_type = "http_request" -> execute_http_request(action_config)
         [] action_type = "file_operation" -> execute_file_operation(action_config)
         [] action_type = "condition" -> execute_condition(input_data, action_config)
         [] action_type = "delay" -> execute_delay(action_config)
         [] action_type \notin KnownActionTypes -> UnknownActionType(action_type)

\* Lines 136-149, formats raw and table; the value of a table is typed.
OutputBranch(node_config, input_data) ==
    LET output_format == Get(node_config, "format", "raw")
        output_value == Get(input_data, "value", "")
        Formatted(result) ==
            Returned(result, <<Entry("INFO", "Output node formatted result: " \o result)>>)
    IN CASE output_format = "table" ->
              LET formatted == format_as_table(Get(input_data, "value", EmptyString))
              IN IF formatted.raised THEN formatted ELSE Formatted(formatted.value)
         [] output_format \notin {"json", "table"} -> Formatted(Str(output_value))

\* Lines 83-87 asking the node configuration first.
InputBranchConfigFirst(node_config, input_data) ==
    LET result == Get(node_config, "value", Get(input_data, "value", ""))
    IN Returned(result, <<Entry("INFO", "Input node returned: " \o Str(result))>>)

\* Lines 83-87.
InputBranch(node_config, input_data) ==
    LET result == Get(input_data, "value", Get(node_config, "value", ""))
    IN Returned(result, <<Entry("INFO", "Input node returned: " \o Str(result))>>)

Dispatch(node, input_data) ==
    LET node_type == node.type
        data == Get(node, "data", EmptyDict)
        node_config == Get(data, "config", EmptyDict)
    IN CASE node_type = "input" -> InputBranch(node_config, input_data)
         [] node_type = "plugin" -> PluginBranch(node.id, data, input_data)
         [] node_type = "action" -> ActionBranch(node_config, input_data)
         [] node_type = "output" -> OutputBranch(node_config, input_data)
         [] OTHER ->
              Returned(PyNone, <<Entry("WARNING", "Unknown node type: " \o node_type)>>)

\* Lines 155-157, with the raise left out.
ExceptSwallow(node_id, res) ==
    IF res.raised
    THEN Returned(PyNone,
             Append(res.entries,
                 Entry("ERROR", "Error executing node " \o node_id \o ": " \o res.error)))
    ELSE res

\* Lines 155-157 with the log call left out.
ExceptRaiseUnlogged(node_id, res) == res

\* Lines 155-157: log the exception and raise it again.
ExceptReraise(node_id, res) ==
    IF res.raised
    THEN [res EXCEPT !.entries =
             Append(@, Entry("ERROR", "Error executing node " \o node_id \o ": " \o res.error))]
    ELSE res

execute_node(node, input_data) == ExceptReraise(node.id, Dispatch(node, input_data))

\* Line 80, the entry every call starts with.
ExecutingEntry(node) ==
    Entry("INFO", "Executing node " \o node.id \o " of type " \o node.type)

(***************************************************************************)
(* get_node_inputs (workflow_runner.py 360-372) over the dict that         *)
(* self.node_outputs names at the time of the call.                        *)
(***************************************************************************)
\* Line 370 keeping the keys already present.
MergeUnder(inputs, output) == Update(output, inputs)

\* Line 370: inputs.update(self.node_outputs[edge['source']]).
MergeInto(inputs, output) == Update(inputs, output)

RECURSIVE get_node_inputs(_, _, _)
get_node_inputs(node_id, edges, outputs) ==
    IF edges = <<>> THEN EmptyDict
    ELSE LET edge == edges[Len(edges)]
             inputs == get_node_inputs(node_id, SubSeq(edges, 1, Len(edges) - 1), outputs)
         IN IF edge.target = node_id /\ edge.source \in DOMAIN outputs
            THEN MergeInto(inputs, outputs[edge.source])
            ELSE inputs

\* The sources whose stored output get_node_inputs merged.
SourcesRead(node_id, edges, outputs) ==
    {edges[j].source : j \in {k \in 1..Len(edges) :
         edges[k].target = node_id /\ edges[k].source \in DOMAIN outputs}}

(***************************************************************************)
(* The workflows and inputs the runs are given.                            *)
(***************************************************************************)
Edge(s, t) == [source |-> s, target |-> t]

InputNode(id) == [id |-> id, type |-> "input", data |-> [config |-> EmptyDict]]

LogNode(id, message) ==
    [id |-> id, type |-> "action",
     data |-> [config |-> [actionType |-> "log", actionConfig |-> [message |-> message]]]]

OutputNode(id) == [id |-> id, type |-> "output", data |-> [config |-> [format |-> "raw"]]]

\* A plugin node saved without a pluginId.
PluginNodeNoId(id) == [id |-> id, type |-> "plugin", data |-> [config |-> EmptyDict]]

\* A plugin node with a pluginId and a node-level configuration.
PluginNode(id, plugin_id) ==
    [id |-> id, type |-> "plugin",
     data |-> [pluginId |-> plugin_id, config |-> [value |-> "configured"]]]

FileReadNode(id, file_path) ==
    [id |-> id, type |-> "action",
     data |-> [config |-> [actionType |-> "file_operation",
                           actionConfig |-> [operation |-> "read", filePath |-> file_path]]]]

Workflow(nodes, edges) == [nodes |-> nodes, edges |-> edges]

Workflows ==
    { \* input -> log action -> output
      Workflow(<<InputNode("A"), LogNode("B", "m"), OutputNode("C")>>,
               <<Edge("A", "B"), Edge("B", "C")>>),
      \* the same chain listed against its execution order
      Workflow(<<OutputNode("C"), LogNode("B", "m"), InputNode("A")>>,
               <<Edge("A", "B"), Edge("B", "C")>>),
      \* two sources into one output
      Workflow(<<InputNode("A"), LogNode("B", "m"), OutputNode("C")>>,
               <<Edge("B", "C"), Edge("A", "C")>>),
      \* the second node raises
      Workflow(<<InputNode("A"), PluginNodeNoId("B"), OutputNode("C")>>,
               <<Edge("A", "B"), Edge("B", "C")>>),
      \* the first node raises
      Workflow(<<PluginNodeNoId("A"), OutputNode("B")>>, <<Edge("A", "B")>>),
      \* a cycle
      Workflow(<<InputNode("A"), OutputNode("B")>>, <<Edge("A", "B"), Edge("B", "A")>>),
      \* two nodes with one id
      Workflow(<<InputNode("A"), InputNode("A")>>, <<>>),
      \* no node
      Workflow(<<>>, <<>>) }

\* Workflows with a plugin call, a file and an edge from nowhere.
MoreWorkflows ==
    { \* a plugin node with a pluginId
      Workflow(<<InputNode("A"), PluginNode("B", "delay"), OutputNode("C")>>,
               <<Edge("A", "B"), Edge("B", "C")>>),
      \* a read of a file that does not exist
      Workflow(<<InputNode("A"), FileReadNode("B", "missing.txt"), OutputNode("C")>>,
               <<Edge("A", "B"), Edge("B", "C")>>),
      \* an edge from an id that is no node
      Workflow(<<InputNode("A"), OutputNode("B")>>, <<Edge("C", "B")>>) }

\* An input node with a value in its configuration.
InputNodeWith(id, value) == [id |-> id, type |-> "input", data |-> [config |-> [value |-> value]]]

DelayNode(id, delay_seconds) ==
    [id |-> id, type |-> "action",
     data |-> [config |-> [actionType |-> "delay",
                           actionConfig |-> [delaySeconds |-> delay_seconds]]]]

HttpNode(id, method, url) ==
    [id |-> id, type |-> "action",
     data |-> [config |-> [actionType |-> "http_request",
                           actionConfig |-> [method |-> method, url |-> url]]]]

\* An action node of a type execute_node has no branch for.
OtherActionNode(id, action_type) ==
    [id |-> id, type |-> "action", data |-> [config |-> [actionType |-> action_type]]]

\* A node of a kind execute_node has no branch for.
OtherNode(id, node_type) == [id |-> id, type |-> node_type, data |-> [config |-> EmptyDict]]

\* Workflows around one node kind each.
NodeWorkflows ==
    { \* a delay of a negative and of a positive duration
      Workflow(<<InputNode("A"), DelayNode("B", -1), OutputNode("C")>>,
               <<Edge("A", "B"), Edge("B", "C")>>),
      Workflow(<<InputNode("A"), DelayNode("B", 2), OutputNode("C")>>,
               <<Edge("A", "B"), Edge("B", "C")>>),
      \* a node of an unknown kind, then an action of an unknown type
      Workflow(<<OtherNode("A", "widget"), OtherActionNode("B", "frobnicate"),
                 OutputNode("C")>>,
               <<Edge("A", "B"), Edge("B", "C")>>),
      \* an HTTP request with a method that has no branch
      Workflow(<<InputNode("A"), HttpNode("B", "patch", "http://example.test/"),
                 OutputNode("C")>>,
               <<Edge("A", "B"), Edge("B", "C")>>),
      \* input nodes with a configured value, at the start and after another node
      Workflow(<<InputNodeWith("A", "configured"), InputNodeWith("B", "second"),
                 OutputNode("C")>>,
               <<Edge("A", "B"), Edge("B", "C")>>),
      Workflow(<<OtherNode("A", "widget"), InputNodeWith("B", "second"), OutputNode("C")>>,
               <<Edge("A", "B"), Edge("B", "C")>>) }

Inputs == {EmptyDict, [value |-> "hi"]}

(***************************************************************************)
(* State.  A runner (WorkflowRunner instance) holds two references,        *)
(* self.logs and self.node_outputs; the list and the dict they name live   *)
(* in log_heap and dict_heap.  An object is named after what created it:   *)
(* the __init__ of a runner or the reset at the start of a run.            *)
(* main.py gives every caller the module-level workflow_runner; the        *)
(* endpoint runs in the server's thread pool and the scheduled job in the  *)
(* scheduler's, so their statements interleave.                           *)
(***************************************************************************)
Runners == {"workflow_runner", "second_runner"}
Runs == {"manual", "scheduled"}
Refs == Runners \cup Runs

VARIABLES
    logs,          \* runner -> the list self.logs names
    node_outputs,  \* runner -> the dict self.node_outputs names
    log_heap,      \* list -> its entries
    dict_heap,     \* dict -> node id -> {"value": result}
    stored_by,     \* history: dict -> node id -> the run that stored the entry
    run,           \* run -> the frame of its execute_workflow call and of its caller
    sched,         \* the thread scheduler: who ran last on a runner, preemptions so far
    probe          \* the graph handed to build_execution_graph on its own

vars == <<logs, node_outputs, log_heap, dict_heap, stored_by, run, sched, probe>>

NoResult == [ok |-> FALSE, order |-> <<>>, exc |-> "none", error |-> "not called"]
NoReturn == [status |-> "none"]
NoSched == [last |-> [rn \in Runners |-> "none"], preemptions |-> 0]
NoProbe == [nodes |-> <<>>, edges |-> <<>>, called |-> TRUE, result |-> NoResult]

NoRecord == [status |-> "none", log_status |-> "none", error_message |-> PyNone]

Frame(runner, workflow, input_data) ==
    [pc |-> "idle",
     runner |-> runner,
     nodes |-> workflow.nodes,
     edges |-> workflow.edges,
     input_data |-> input_data,
     built |-> NoResult,          \* what build_execution_graph gave
     i |-> 0,                     \* place of the loop in the order, from 1
     node_inputs |-> EmptyDict,
     result |-> PyNone,
     error |-> "",                \* str(e) of the exception caught at line 421
     final_output |-> PyNone,
     ret |-> NoReturn,            \* the mapping execute_workflow returned
     attached |-> "none",         \* the list get_logs gave the caller
     record_logs |-> <<>>,        \* its entries as written to the WorkflowRun
     record |-> NoRecord,         \* the WorkflowRun and WorkflowExecutionLog rows written
     \* history
     appended |-> <<>>,           \* the entries this run logged
     executed |-> <<>>,           \* the ids execute_node was called for
     stored |-> <<>>,             \* the ids stored, with the stored entry
     input_from |-> {},           \* the runs whose outputs this run resolved inputs from
     resolved |-> <<>>,           \* per node of the loop: id, line 401 taken, the input
     calls |-> <<>>,              \* the plugin ids the plugin manager was called for
     received |-> <<>>,           \* the inputs plugins were executed with
     raised_at |-> 0]             \* place in the order of the node whose handler raised

\* The manual request uses the runner of main.py; the other run uses it too or
\* has a runner of its own.
InitWith(catalogue, others) ==
    /\ logs = [rn \in Runners |-> rn]
    /\ node_outputs = [rn \in Runners |-> rn]
    /\ log_heap = [ref \in Refs |-> <<>>]
    /\ dict_heap = [ref \in Refs |-> EmptyDict]
    /\ stored_by = [ref \in Refs |-> EmptyDict]
    /\ \E w1 \in catalogue, w2 \in others, d1, d2 \in Inputs, rn \in Runners :
          run = [r \in Runs |->
                    IF r = "manual" THEN Frame("workflow_runner", w1, d1)
                    ELSE Frame(rn, w2, d2)]
    /\ sched = NoSched
    /\ probe = NoProbe

\* The runs that preempt each other on one runner.
Init == InitWith(Workflows, Workflows)

\* The runs that follow each other.
InitSeq == InitWith(Workflows \cup MoreWorkflows, Workflows \cup MoreWorkflows)

\* One manual run of any workflow; the scheduled job has nothing to run.
InitOne == InitWith(Workflows \cup MoreWorkflows \cup NodeWorkflows, {Workflow(<<>>, <<>>)})

Runner(r) == run[r].runner

InFlight(r) == run[r].pc \notin {"idle", "done"}

\* A step of r preempts the run that stepped last on the same runner when that
\* run is still in flight.  At most MaxPreemptions such switches are followed.
Schedule(r) ==
    LET prev == sched.last[Runner(r)]
        preempts == prev \notin {"none", r} /\ InFlight(prev)
    IN /\ preempts => sched.preemptions < MaxPreemptions
       /\ sched' = [last |-> [sched.last EXCEPT ![Runner(r)] = r],
                    preemptions |-> IF preempts THEN sched.preemptions + 1
                                    ELSE sched.preemptions]

Tag(r, e) == [level |-> e.level, message |-> e.message, by |-> r]

TagAll(r, entries) == [k \in DOMAIN entries |-> Tag(r, entries[k])]

\* Line 24 putting the entries in front.
LogHeapPrepend(r, entries) ==
    [log_heap EXCEPT ![logs[Runner(r)]] = TagAll(r, entries) \o @]

\* self.log(...) once or more without a step of another thread between:
\* log_heap and the run's history after the appends.
LogHeapAfter(r, entries) ==
    [log_heap EXCEPT ![logs[Runner(r)]] = @ \o TagAll(r, entries)]

\* Line 33 done as self.logs.clear().
clear_logs_in_place(rn, r) ==
    /\ logs' = logs
    /\ log_heap' = [log_heap EXCEPT ![logs[rn]] = <<>>]

\* Line 33: self.logs = [], a new list.
clear_logs(rn, r) ==
    /\ logs' = [logs EXCEPT ![rn] = r]
    /\ log_heap' = [log_heap EXCEPT ![r] = <<>>]

\* Line 377 left out.
keep_node_outputs(rn, r) ==
    /\ node_outputs' = node_outputs
    /\ dict_heap' = dict_heap
    /\ stored_by' = stored_by

\* Line 377: self.node_outputs = {}, a new dict.
reset_node_outputs(rn, r) ==
    /\ node_outputs' = [node_outputs EXCEPT ![rn] = r]
    /\ dict_heap' = [dict_heap EXCEPT ![r] = EmptyDict]
    /\ stored_by' = [stored_by EXCEPT ![r] = EmptyDict]

\* Line 393 iterating the node list.
LoopOverNodes(execution_order, nodes) == [k \in 1..Len(nodes) |-> nodes[k].id]

\* Line 393: for node_id in execution_order.
LoopOver(execution_order, nodes) == execution_order

\* Line 393 staying at the node it has just run.
SameIndex(i) == i

\* Line 393: the loop goes on to the next place of the order.
NextIndex(i) == i + 1

\* Line 410 reading execution_order[0].
FirstIndex(execution_order) == 1

\* Line 410: execution_order[-1].
LastIndex(execution_order) == Len(execution_order)

\* Line 390: a dict comprehension keeps, for an id, the last node carrying it.
node_lookup(nodes, node_id) ==
    nodes[CHOOSE k \in 1..Len(nodes) :
              nodes[k].id = node_id /\ \A m \in k+1..Len(nodes) : nodes[m].id # node_id]

CurrentId(r) == LoopOver(run[r].built.order, run[r].nodes)[run[r].i]

(***************************************************************************)
(* execute_workflow (workflow_runner.py 374-427), statement by statement,  *)
(* and the caller's get_logs (main.py 459-467, 684-692).                   *)
(***************************************************************************)
\* Line 376.
Start(r) ==
    /\ run[r].pc = "idle"
    /\ clear_logs(Runner(r), r)
    /\ run' = [run EXCEPT ![r].pc = "reset_outputs"]
    /\ UNCHANGED <<node_outputs, dict_heap, stored_by, probe>>
    /\ Schedule(r)

\* Lines 377-380.
ResetOutputs(r) ==
    /\ run[r].pc = "reset_outputs"
    /\ reset_node_outputs(Runner(r), r)
    /\ run' = [run EXCEPT ![r].pc = "log_start"]
    /\ UNCHANGED <<logs, log_heap, probe>>
    /\ Schedule(r)

Log(r, entries, next) ==
    /\ log_heap' = LogHeapAfter(r, entries)
    /\ run' = [run EXCEPT ![r].pc = next,
                          ![r].appended = @ \o TagAll(r, entries)]
    /\ UNCHANGED <<logs, node_outputs, dict_heap, stored_by, probe>>
    /\ Schedule(r)

\* Line 382.
LogStart(r) ==
    /\ run[r].pc = "log_start"
    /\ Log(r, <<Entry("INFO", "Starting workflow execution")>>, "order")

\* The classes of the exceptions that the ordering, the final read and the
\* handlers raise; each derives from Exception.
ExceptionClasses ==
    {"ValueError", "KeyError", "IndexError", "TypeError", "AttributeError",
     "OverflowError", "FileNotFoundError"}

\* Line 421 catching ValueError alone.
CaughtIfValueError(exc) == exc = "ValueError"

\* Line 421: except Exception as e.
Caught(exc) == exc \in ExceptionClasses

\* Where a raise inside the try block of lines 384-419 leads: to the except
\* clause, or out of execute_workflow to its caller.
AfterRaise(exc) == IF Caught(exc) THEN "except" ELSE "propagated"

\* Line 386 for the graphs that are run: build_execution_graph reads its
\* arguments alone, so its answer for a graph is worked out once.
built_for ==
    [w \in Workflows \cup MoreWorkflows \cup NodeWorkflows \cup {Workflow(<<>>, <<>>)} |->
        build_execution_graph(w.nodes, w.edges)]

\* Line 386.
Order(r) ==
    /\ run[r].pc = "order"
    /\ LET res == built_for[Workflow(run[r].nodes, run[r].edges)]
       IN run' = [run EXCEPT ![r].built = res,
                             ![r].i = 1,
                             ![r].error = res.error,
                             ![r].pc = IF res.ok THEN "log_order" ELSE AfterRaise(res.exc)]
    /\ UNCHANGED <<logs, node_outputs, log_heap, dict_heap, stored_by, probe>>
    /\ Schedule(r)

\* Lines 387-390.
LogOrder(r) ==
    /\ run[r].pc = "log_order"
    /\ Log(r, <<Entry("INFO", "Execution order: " \o ListRepr(run[r].built.order))>>, "loop")

\* Lines 396-401 merging the upstream outputs into the caller's dict and
\* handing that dict on.
MergeIntoGlobal(inputs, input_data) ==
    [node_inputs |-> Update(input_data, inputs), input_data |-> Update(input_data, inputs)]

\* Lines 396-401: the dict handed to the node, and the caller's input_data
\* after it; the dict of line 362 is new and line 401 hands on a copy.
NodeInputsOrGlobal(inputs, input_data) ==
    [node_inputs |-> IF inputs = EmptyDict THEN input_data ELSE inputs,
     input_data |-> input_data]

\* Lines 393-401: the next node of the loop and its input.
ResolveInput(r) ==
    /\ run[r].pc = "loop"
    /\ run[r].i <= Len(LoopOver(run[r].built.order, run[r].nodes))
    /\ LET outputs == dict_heap[node_outputs[Runner(r)]]
           from == stored_by[node_outputs[Runner(r)]]
           inputs == get_node_inputs(CurrentId(r), run[r].edges, outputs)
           chosen == NodeInputsOrGlobal(inputs, run[r].input_data)
       IN run' = [run EXCEPT
              ![r].pc = "execute_node",
              ![r].node_inputs = chosen.node_inputs,
              ![r].input_data = chosen.input_data,
              ![r].resolved = Append(@,
                  [id |-> CurrentId(r),
                   fallback |-> inputs = EmptyDict,
                   given |-> chosen.node_inputs]),
              ![r].input_from = @ \cup
                  {from[s] : s \in SourcesRead(CurrentId(r), run[r].edges, outputs)}]
    /\ UNCHANGED <<logs, node_outputs, log_heap, dict_heap, stored_by, probe>>
    /\ Schedule(r)

\* Line 393, the order is used up.
LoopEnd(r) ==
    /\ run[r].pc = "loop"
    /\ run[r].i > Len(LoopOver(run[r].built.order, run[r].nodes))
    /\ run' = [run EXCEPT ![r].pc = "final"]
    /\ UNCHANGED <<logs, node_outputs, log_heap, dict_heap, stored_by, probe>>
    /\ Schedule(r)

\* Lines 404, 76-80: execute_node is entered.
EnterNode(r) ==
    /\ run[r].pc = "execute_node"
    /\ LET node == node_lookup(run[r].nodes, CurrentId(r))
       IN /\ log_heap' = LogHeapAfter(r, <<ExecutingEntry(node)>>)
          /\ run' = [run EXCEPT ![r].pc = "dispatch",
                                ![r].appended = @ \o TagAll(r, <<ExecutingEntry(node)>>),
                                ![r].executed = Append(@, CurrentId(r))]
    /\ UNCHANGED <<logs, node_outputs, dict_heap, stored_by, probe>>
    /\ Schedule(r)

\* Lines 82-157: the handler runs; execute_node returns or raises.
RunNode(r) ==
    /\ run[r].pc = "dispatch"
    /\ LET node == node_lookup(run[r].nodes, CurrentId(r))
           res == execute_node(node, run[r].node_inputs)
       IN /\ log_heap' = LogHeapAfter(r, res.entries)
          /\ run' = [run EXCEPT
                 ![r].pc = IF res.raised THEN AfterRaise(res.exc) ELSE "store",
                 ![r].result = res.value,
                 ![r].error = IF res.raised THEN res.error ELSE @,
                 ![r].appended = @ \o TagAll(r, res.entries),
                 ![r].calls = @ \o res.calls,
                 ![r].received = @ \o res.received,
                 ![r].raised_at = IF Dispatch(node, run[r].node_inputs).raised
                                  THEN run[r].i ELSE @]
    /\ UNCHANGED <<logs, node_outputs, dict_heap, stored_by, probe>>
    /\ Schedule(r)

\* Line 407.
Store(r) ==
    /\ run[r].pc = "store"
    /\ LET ref == node_outputs[Runner(r)]
           entry == [value |-> run[r].result]
       IN /\ dict_heap' = [dict_heap EXCEPT ![ref] = Put(@, CurrentId(r), entry)]
          /\ stored_by' = [stored_by EXCEPT ![ref] = Put(@, CurrentId(r), r)]
          /\ run' = [run EXCEPT ![r].pc = "loop",
                                ![r].i = NextIndex(@),
                                ![r].stored = Append(@, [id |-> CurrentId(r), entry |-> entry])]
    /\ UNCHANGED <<logs, node_outputs, log_heap, probe>>
    /\ Schedule(r)

\* Line 410 reading the last place of an empty order as None.
LastOrNone(execution_order) ==
    IF execution_order = <<>> THEN [raised |-> FALSE, id |-> PyNone]
    ELSE [raised |-> FALSE, id |-> execution_order[LastIndex(execution_order)]]

\* Line 410: execution_order[-1] of an empty order is an IndexError.
LastOf(execution_order) ==
    IF execution_order = <<>> THEN [raised |-> TRUE, id |-> PyNone]
    ELSE [raised |-> FALSE, id |-> execution_order[LastIndex(execution_order)]]

\* Line 410.
Final(r) ==
    /\ run[r].pc = "final"
    /\ LET last == LastOf(run[r].built.order)
           outputs == dict_heap[node_outputs[Runner(r)]]
       IN IF last.raised
          THEN run' = [run EXCEPT ![r].pc = AfterRaise("IndexError"),
                                  ![r].error = "list index out of range"]
          ELSE run' = [run EXCEPT
                   ![r].pc = "log_done",
                   ![r].final_output =
                       Get(Get(outputs, last.id, EmptyDict), "value", PyNone)]
    /\ UNCHANGED <<logs, node_outputs, log_heap, dict_heap, stored_by, probe>>
    /\ Schedule(r)

\* Line 412.
LogDone(r) ==
    /\ run[r].pc = "log_done"
    /\ Log(r, <<Entry("INFO", "Workflow execution completed successfully")>>, "return_ok")

\* Lines 414-419.
ReturnSuccess(r) ==
    /\ run[r].pc = "return_ok"
    /\ run' = [run EXCEPT
           ![r].pc = "get_logs",
           ![r].ret = [status |-> "success",
                       output |-> run[r].final_output,
                       node_outputs |-> node_outputs[Runner(r)],
                       execution_order |-> run[r].built.order]]
    /\ UNCHANGED <<logs, node_outputs, log_heap, dict_heap, stored_by, probe>>
    /\ Schedule(r)

\* Line 422 logging at the default level.
FailureEntryAtInfo(error) == Entry("INFO", "Workflow execution failed: " \o error)

\* Line 422.
FailureEntry(error) == Entry("ERROR", "Workflow execution failed: " \o error)

\* Lines 421-422.
Except(r) ==
    /\ run[r].pc = "except"
    /\ Log(r, <<FailureEntry(run[r].error)>>, "return_failed")

\* Lines 423-427.
ReturnFailed(r) ==
    /\ run[r].pc = "return_failed"
    /\ run' = [run EXCEPT
           ![r].pc = "get_logs",
           ![r].ret = [status |-> "failed",
                       error |-> run[r].error,
                       node_outputs |-> node_outputs[Runner(r)]]]
    /\ UNCHANGED <<logs, node_outputs, log_heap, dict_heap, stored_by, probe>>
    /\ Schedule(r)

\* main.py 462-481 and 687-705: the rows written once execute_workflow has
\* returned; the except branch is for an exception, and execute_workflow
\* returns its failures.
WriteRecord(result) ==
    [status |-> "completed", log_status |-> "success", error_message |-> PyNone]

\* main.py 462-481 and 687-705: the caller reads get_logs() into the run record.
GetLogs(r) ==
    /\ run[r].pc = "get_logs"
    /\ run' = [run EXCEPT ![r].pc = "done",
                          ![r].attached = logs[Runner(r)],
                          ![r].record_logs = log_heap[logs[Runner(r)]],
                          ![r].record = WriteRecord(run[r].ret)]
    /\ UNCHANGED <<logs, node_outputs, log_heap, dict_heap, stored_by, probe>>
    /\ Schedule(r)

\* A run that starts while no other run of its runner is in flight.
StartAlone(r) ==
    /\ \A o \in Runs \ {r} : Runner(o) = Runner(r) => ~InFlight(o)
    /\ Start(r)

Step(r) ==
    \/ ResetOutputs(r) \/ LogStart(r) \/ Order(r) \/ LogOrder(r)
    \/ ResolveInput(r) \/ LoopEnd(r) \/ EnterNode(r) \/ RunNode(r) \/ Store(r)
    \/ Final(r) \/ LogDone(r) \/ ReturnSuccess(r) \/ Except(r) \/ ReturnFailed(r)
    \/ GetLogs(r)

\* Runs triggered whenever a request or a schedule fires.
Next == \E r \in Runs : Start(r) \/ Step(r)

Spec == Init /\ [][Next]_vars

\* Runs of one runner follow each other; runs of different runners interleave.
NextSeq == \E r \in Runs : StartAlone(r) \/ Step(r)

SpecSeq == InitSeq /\ [][NextSeq]_vars

\* The manual run alone.
NextOne == StartAlone("manual") \/ Step("manual")

SpecOne == InitOne /\ [][NextOne]_vars

\* The manual run alone, its thread never stopped for good: execute_workflow
\* and the endpoint that awaits it keep taking steps until they return.
SpecOneFair == InitOne /\ [][NextOne]_vars /\ WF_vars(Step("manual"))

(***************************************************************************)
(* The ordering function applied to every graph within the bounds: no run  *)
(* is started, the graph is handed to build_execution_graph directly.      *)
(***************************************************************************)
NodeStub(id) == [id |-> id]

ProbeNodes == {[i \in DOMAIN s |-> NodeStub(s[i])] : s \in SeqsUpTo(NodeIds, MaxNodes)}
ProbeEdges == {[i \in DOMAIN s |-> Edge(s[i][1], s[i][2])] :
                  s \in SeqsUpTo(NodeIds \X NodeIds, MaxEdges)}

InitOrder ==
    /\ logs = [rn \in Runners |-> rn]
    /\ node_outputs = [rn \in Runners |-> rn]
    /\ log_heap = [ref \in Refs |-> <<>>]
    /\ dict_heap = [ref \in Refs |-> EmptyDict]
    /\ stored_by = [ref \in Refs |-> EmptyDict]
    /\ run = [r \in Runs |-> Frame("workflow_runner", Workflow(<<>>, <<>>), EmptyDict)]
    /\ sched = NoSched
    /\ \E n \in ProbeNodes, e \in ProbeEdges :
          probe = [nodes |-> n, edges |-> e, called |-> FALSE, result |-> NoResult]

CallBuildExecutionGraph ==
    /\ ~probe.called
    /\ probe' = [probe EXCEPT !.called = TRUE,
                              !.result = build_execution_graph(probe.nodes, probe.edges)]
    /\ UNCHANGED <<logs, node_outputs, log_heap, dict_heap, stored_by, run, sched>>

NextOrder == CallBuildExecutionGraph

SpecOrder == InitOrder /\ [][NextOrder]_vars

(***************************************************************************)
(* One node handed to execute_node on its own (workflow_runner.py 74-157), *)
(* with typed values: condition nodes over pairs of values, and output     *)
(* nodes of format table over the values a table can be asked for.         *)
(***************************************************************************)
ConditionNode(id, config) ==
    [id |-> id, type |-> "action",
     data |-> [config |-> [actionType |-> "condition", actionConfig |-> config]]]

TableNode(id) == [id |-> id, type |-> "output", data |-> [config |-> [format |-> "table"]]]

\* A dict of one row of a table, keys and ints.
Row(items) == PyDict([i \in DOMAIN items |-> <<items[i][1], PyInt(items[i][2])>>])

ConditionTypes ==
    <<"equals", "not_equals", "contains", "greater_than", "less_than", "matches">>

ConditionValues ==
    <<PyString(<<"5">>), PyString(<<"6">>), PyString(<<"5", ".", "0">>),
      PyString(<<" ", "-", "7", " ">>), PyString(<<"a", "b", "c">>), PyString(<<>>),
      PyInt(5), PyInt(6), PyInt(0 - 1), PyFloat(50), PyFloat(55),
      PyHugeInt(400), PyList(<<PyInt(5)>>), NoneValue>>

TableValues ==
    <<PyList(<<Row(<<<< <<"a">>, 1>>, << <<"b">>, 2>>>>),
               Row(<<<< <<"a">>, 3>>, << <<"b">>, 4>>>>)>>),
      PyList(<<Row(<<<< <<"a">>, 1>>, << <<"b">>, 2>>>>)>>),
      PyList(<<Row(<<<< <<"a">>, 1>>>>), Row(<<<< <<"b">>, 2>>>>)>>),
      PyList(<<Row(<<<< <<"a">>, 1>>, << <<"b">>, 2>>>>), Row(<<<< <<"a">>, 3>>>>)>>),
      PyList(<<Row(<<<< <<"a">>, 1>>>>), PyInt(5)>>),
      PyList(<<PyInt(5), Row(<<<< <<"a">>, 1>>>>)>>),
      PyList(<<Row(<<>>)>>),
      PyList(<<>>),
      PyInt(5),
      PyString(<<"a", "b", "c">>),
      Row(<<<< <<"a">>, 1>>>>)>>

\* A dict with the key when some value is given for it (index 0: no key).
Given(key, values, index) ==
    IF index = 0 THEN EmptyDict ELSE Put(EmptyDict, key, values[index])

ConditionProbes ==
    \E type \in 0..Len(ConditionTypes),
       expected, input \in 0..Len(ConditionValues),
       input_key \in {"value", "count"},
       configured \in BOOLEAN :
        probe = [node |-> ConditionNode("A",
                     Update(Update(Update(Given("conditionType", ConditionTypes, type),
                                          Given("expectedValue", ConditionValues, expected)),
                                   IF input_key = "value" THEN EmptyDict
                                   ELSE [inputKey |-> input_key]),
                            IF configured THEN [trueValue |-> "yes", falseValue |-> "no"]
                            ELSE EmptyDict)),
                 input_data |-> Given(input_key, ConditionValues, input),
                 called |-> FALSE, result |-> NoReturn]

TableProbes ==
    \E data \in 0..Len(TableValues) :
        probe = [node |-> TableNode("A"),
                 input_data |-> Given("value", TableValues, data),
                 called |-> FALSE, result |-> NoReturn]

InitNode ==
    /\ logs = [rn \in Runners |-> rn]
    /\ node_outputs = [rn \in Runners |-> rn]
    /\ log_heap = [ref \in Refs |-> <<>>]
    /\ dict_heap = [ref \in Refs |-> EmptyDict]
    /\ stored_by = [ref \in Refs |-> EmptyDict]
    /\ run = [r \in Runs |-> Frame("workflow_runner", Workflow(<<>>, <<>>), EmptyDict)]
    /\ sched = NoSched
    /\ (ConditionProbes \/ TableProbes)

\* The call on the module-level runner from the thread of the manual run:
\* line 80, the handler, and what it logged.
CallExecuteNode ==
    /\ ~probe.called
    /\ LET res == execute_node(probe.node, probe.input_data)
       IN /\ probe' = [probe EXCEPT !.called = TRUE, !.result = res]
          /\ log_heap' = [log_heap EXCEPT ![logs["workflow_runner"]] =
                             @ \o TagAll("manual", <<ExecutingEntry(probe.node)>> \o res.entries)]
    /\ UNCHANGED <<logs, node_outputs, dict_heap, stored_by, run, sched>>

NextNode == CallExecuteNode

SpecNode == InitNode /\ [][NextNode]_vars

(***************************************************************************)
(* The role checks of the API (auth.py 61-111, models.py 35-40) in front   *)
(* of create_workflow and update_user_role (main.py 146-198).  The users   *)
(* table is as the database holds it at start-up; the requests bear the    *)
(* token of a user of the table, of a user that has no row, or no valid    *)
(* token.                                                                  *)
(***************************************************************************)
UserNames == {"ann", "bob"}

\* "guest" is a role name outside the hierarchy.
Roles == {"viewer", "creator", "admin", "guest"}

\* verify_token (auth.py 48-59): the username a token carries, None for a
\* token that does not verify.
Tokens == UserNames \cup {"eve", PyNone}

\* models.py 37.
role_hierarchy == [viewer |-> 1, creator |-> 2, admin |-> 3]

\* models.py 35-40.
has_role(user, required_role) ==
    LET user_level == Get(role_hierarchy, user.role, 0)
        required_level == Get(role_hierarchy, required_role, 0)
    IN user_level >= required_level

\* What a dependency gives: the user it lets through, or the status of the
\* HTTPException it raises.
Allowed(username) == [status |-> 200, user |-> username]

Rejected(status) == [status |-> status, user |-> PyNone]

\* auth.py 61-84: the query keeps active users only.
get_current_user(token, users) ==
    IF token = PyNone THEN Rejected(401)
    ELSE IF token \notin DOMAIN users \/ ~users[token].is_active THEN Rejected(401)
    ELSE Allowed(token)

\* auth.py 86-92.
get_current_active_user(token, users) ==
    LET current == get_current_user(token, users)
    IN IF current.status # 200 THEN current
       ELSE IF ~users[current.user].is_active THEN Rejected(400)
       ELSE current

\* auth.py 94-103.
require_role(required_role, token, users) ==
    LET current == get_current_active_user(token, users)
    IN IF current.status # 200 THEN current
       ELSE IF ~has_role(users[current.user], required_role) THEN Rejected(403)
       ELSE current

\* auth.py 105-107.
require_admin(token, users) == require_role("admin", token, users)

\* auth.py 109-111 asking for the lowest role.
require_viewer(token, users) == require_role("viewer", token, users)

\* auth.py 109-111.
require_creator_or_admin(token, users) == require_role("creator", token, users)

InitApi ==
    /\ logs = [rn \in Runners |-> rn]
    /\ node_outputs = [rn \in Runners |-> rn]
    /\ log_heap = [ref \in Refs |-> <<>>]
    /\ dict_heap = [ref \in Refs |-> EmptyDict]
    /\ stored_by = [ref \in Refs |-> EmptyDict]
    /\ run = [r \in Runs |-> Frame("workflow_runner", Workflow(<<>>, <<>>), EmptyDict)]
    /\ sched = NoSched
    /\ \E users \in [UserNames -> [role : Roles, is_active : BOOLEAN]] :
          probe = [users |-> users, workflows |-> <<>>,
                   request |-> [endpoint |-> "none", token |-> PyNone, status |-> 0,
                                users |-> users, workflows |-> <<>>]]

\* The request just answered, with the tables as they were when it came.
Answered(endpoint, token, status) ==
    [endpoint |-> endpoint, token |-> token, status |-> status,
     users |-> probe.users, workflows |-> probe.workflows]

\* main.py 166-198.
create_workflow(token) ==
    LET current_user == require_creator_or_admin(token, probe.users)
    IN /\ current_user.status = 200 => Len(probe.workflows) < MaxWorkflows
       /\ probe' = [probe EXCEPT
              !.workflows = IF current_user.status = 200
                            THEN Append(@, [owner_id |-> current_user.user])
                            ELSE @,
              !.request = Answered("create_workflow", token, current_user.status)]
       /\ UNCHANGED <<logs, node_outputs, log_heap, dict_heap, stored_by, run, sched>>

\* main.py 146-163.
update_user_role(token, user_id, role) ==
    LET current_user == require_admin(token, probe.users)
        status == IF current_user.status # 200 THEN current_user.status
                  ELSE IF role \notin {"viewer", "creator", "admin"} THEN 400
                  ELSE IF user_id \notin DOMAIN probe.users THEN 404
                  ELSE 200
    IN /\ probe' = [probe EXCEPT
              !.users = IF status = 200 THEN [@ EXCEPT ![user_id].role = role] ELSE @,
              !.request = Answered("update_user_role", token, status)]
       /\ UNCHANGED <<logs, node_outputs, log_heap, dict_heap, stored_by, run, sched>>

NextApi ==
    \/ \E token \in Tokens : create_workflow(token)
    \/ \E token \in Tokens, user_id \in UserNames \cup {"eve"}, role \in Roles :
          update_user_role(token, user_id, role)

SpecApi == InitApi /\ [][NextApi]_vars

(***************************************************************************)
(* Graph notions used to state the ordering claims, defined on the inputs  *)
(* alone (never through build_execution_graph).                            *)
(***************************************************************************)
IdsOf(nodes) == {nodes[i].id : i \in 1..Len(nodes)}

UniqueIds(nodes) == \A i, j \in 1..Len(nodes) : nodes[i].id = nodes[j].id => i = j

EdgesReferToNodes(nodes, edges) ==
    \A j \in 1..Len(edges) :
        edges[j].source \in IdsOf(nodes) /\ edges[j].target \in IdsOf(nodes)

\* No edge leaves a node of the list for an id that is no node.
NoDanglingTarget(nodes, edges) ==
    \A j \in 1..Len(edges) :
        edges[j].source \in IdsOf(nodes) => edges[j].target \in IdsOf(nodes)

Successors(S, edges) ==
    {edges[j].target : j \in {k \in 1..Len(edges) : edges[k].source \in S}}

RECURSIVE ReachWithin(_, _, _)
ReachWithin(S, edges, k) ==
    IF k = 0 THEN {}
    ELSE Successors(S, edges) \cup ReachWithin(Successors(S, edges), edges, k - 1)

\* The ids reached from n over one edge or more.
ReachedFrom(n, nodes, edges) == ReachWithin({n}, edges, Cardinality(IdsOf(nodes)) + 1)

HasCycle(nodes, edges) == \E n \in IdsOf(nodes) : n \in ReachedFrom(n, nodes, edges)

OnCycle(n, nodes, edges) == n \in ReachedFrom(n, nodes, edges)

Pos(order, id) == CHOOSE i \in 1..Len(order) : order[i] = id

IsPermutationOf(order, ids) ==
    /\ Range(order) = ids
    /\ \A i, j \in 1..Len(order) : order[i] = order[j] => i = j

\* C3: for an acyclic graph with unique node ids and edges that reference
\* existing nodes (several edges into a node, out of a node and repeated edges
\* included), build_execution_graph returns a permutation of all node ids, as
\* long as the node list, that puts the source of every edge strictly before
\* its target.
C3_OrderIsTopological ==
    (/\ probe.called
     /\ UniqueIds(probe.nodes)
     /\ EdgesReferToNodes(probe.nodes, probe.edges)
     /\ ~HasCycle(probe.nodes, probe.edges))
    => /\ probe.result.ok
       /\ Len(probe.result.order) = Len(probe.nodes)
       /\ IsPermutationOf(probe.result.order, IdsOf(probe.nodes))
       /\ \A j \in 1..Len(probe.edges) :
              Pos(probe.result.order, probe.edges[j].source)
                  < Pos(probe.result.order, probe.edges[j].target)

\* Three nodes, two different edges into one node, one of them repeated.
C3_Witness ==
    /\ probe.called
    /\ probe.result.ok
    /\ UniqueIds(probe.nodes)
    /\ Len(probe.nodes) = 3
    /\ ~HasCycle(probe.nodes, probe.edges)
    /\ \E i, j, k \in 1..Len(probe.edges) :
          /\ i # j /\ j # k /\ i # k
          /\ probe.edges[i] = probe.edges[j]
          /\ probe.edges[k].target = probe.edges[i].target
          /\ probe.edges[k].source # probe.edges[i].source

\* C4: for a graph (edges between nodes of the list) that contains a cycle, a
\* self-loop and a cycle next to acyclic parts included, build_execution_graph
\* raises the cycle error and returns no order.
C4_CycleRaises ==
    (/\ probe.called
     /\ NoDanglingTarget(probe.nodes, probe.edges)
     /\ HasCycle(probe.nodes, probe.edges))
    => /\ ~probe.result.ok
       /\ probe.result.exc = "ValueError"
       /\ probe.result.error = CycleMessage
       /\ probe.result.order = <<>>

\* A cycle that is entered from a node outside it and left for a node outside it.
C4_Witness ==
    /\ probe.called
    /\ ~probe.result.ok
    /\ probe.result.error = CycleMessage
    /\ UniqueIds(probe.nodes)
    /\ EdgesReferToNodes(probe.nodes, probe.edges)
    /\ \E a, b \in IdsOf(probe.nodes) :
          /\ OnCycle(a, probe.nodes, probe.edges)
          /\ ~OnCycle(b, probe.nodes, probe.edges)
          /\ \/ a \in ReachedFrom(b, probe.nodes, probe.edges)
             \/ b \in ReachedFrom(a, probe.nodes, probe.edges)

\* The edges the ordering counts: those whose source is a node of the list.
CountedInto(id, nodes, edges) ==
    {j \in 1..Len(edges) : edges[j].target = id /\ edges[j].source \in IdsOf(nodes)}

\* When id becomes ready: the place in the order of the predecessor emitted
\* last, then the place in the edge list of that predecessor's last edge to id.
ReadyKey(id, order, nodes, edges) ==
    LET keys == {Pos(order, edges[j].source) * (Len(edges) + 1) + j :
                    j \in CountedInto(id, nodes, edges)}
    IN CHOOSE k \in keys : \A m \in keys : m <= k

IsSeqPrefix(s, t) == Len(s) <= Len(t) /\ s = SubSeq(t, 1, Len(s))

\* C10: the order starts with the nodes of in-degree zero in the order of their
\* first appearance in the node list, the other nodes follow in the order in
\* which they became ready (FIFO), and nodes [A, B] without edges give [A, B].
C10_FifoOrder ==
    (probe.called /\ probe.result.ok)
    => LET order == probe.result.order
           roots == SelectSeq([k \in 1..Len(probe.nodes) |-> probe.nodes[k].id],
                        LAMBDA id : CountedInto(id, probe.nodes, probe.edges) = {})
           later == IdsOf(probe.nodes) \ Range(roots)
       IN /\ IsSeqPrefix(roots, order)
          /\ \A x, y \in later :
                 ReadyKey(x, order, probe.nodes, probe.edges)
                     < ReadyKey(y, order, probe.nodes, probe.edges)
                 => Pos(order, x) < Pos(order, y)
          /\ (probe.nodes = <<NodeStub("A"), NodeStub("B")>> /\ probe.edges = <<>>
                 => order = <<"A", "B">>)

\* Two roots listed in the order B, A and a third node ready after both.
C10_Witness ==
    /\ probe.called
    /\ probe.result.ok
    /\ probe.nodes = <<NodeStub("B"), NodeStub("A"), NodeStub("C")>>
    /\ probe.edges = <<Edge("A", "C"), Edge("B", "C")>>
    /\ probe.result.order = <<"B", "A", "C">>

(***************************************************************************)
(* Claims about runs.                                                      *)
(***************************************************************************)
HasReturned(r) == run[r].pc \in {"get_logs", "done"}

\* The dict a run returned as node_outputs, as it is now.
ReturnedOutputs(r) == dict_heap[run[r].ret.node_outputs]

\* The dict that holds exactly the entries a run stored.
StoredDict(stored) ==
    [id \in {stored[k].id : k \in 1..Len(stored)} |->
        stored[CHOOSE k \in 1..Len(stored) :
                   stored[k].id = id /\ \A m \in k+1..Len(stored) : stored[m].id # id].entry]

\* C1: when two runs are in flight at once on the runner of the API layer, the
\* node_outputs each run returns hold only outputs that this run stored, and no
\* node input of a run is resolved from an output the other run stored.
C1_OutputsStayWithTheirRun ==
    \A r \in Runs :
        /\ run[r].input_from \subseteq {r}
        /\ HasReturned(r) =>
               \A id \in DOMAIN ReturnedOutputs(r) :
                   stored_by[run[r].ret.node_outputs][id] = r

\* C2: the log sequence the caller writes to a run's record holds exactly the
\* entries this run appended, in the order of appending, whatever other run
\* started or finished before the get_logs call.
C2_RecordHoldsOwnLog ==
    \A r \in Runs : run[r].pc = "done" => run[r].record_logs = run[r].appended

\* C5: if the handler of the node at place i of the order raises, the run
\* returns status failed with the message of the exception; node_outputs holds
\* the outputs of the places before i as they were stored and nothing else;
\* no node after place i is executed.
C5_FailureKeepsUpstreamOutputs ==
    \A r \in Runs :
        (HasReturned(r) /\ run[r].raised_at > 0) =>
            LET i == run[r].raised_at
                order == run[r].built.order
                failing == node_lookup(run[r].nodes, order[i])
            IN /\ run[r].ret.status = "failed"
               /\ run[r].ret.error = Dispatch(failing, run[r].node_inputs).error
               /\ DOMAIN ReturnedOutputs(r) = {order[k] : k \in 1..(i - 1)}
               /\ Len(run[r].stored) = i - 1
               /\ \A k \in 1..(i - 1) :
                      /\ run[r].stored[k].id = order[k]
                      /\ ReturnedOutputs(r)[order[k]] = run[r].stored[k].entry
               /\ run[r].executed = SubSeq(order, 1, i)

\* The second of three nodes raised and the run has returned.
C5_Witness ==
    \E r \in Runs :
        /\ HasReturned(r)
        /\ run[r].raised_at = 2
        /\ Len(run[r].built.order) = 3
        /\ run[r].ret.status = "failed"
        /\ DOMAIN ReturnedOutputs(r) = {run[r].built.order[1]}

\* What C6 promises of a run.
SuccessResult(r) ==
    LET order == build_execution_graph(run[r].nodes, run[r].edges).order
    IN /\ run[r].ret.status = "success"
       /\ run[r].ret.execution_order = order
       /\ run[r].executed = order
       /\ DOMAIN ReturnedOutputs(r) = IdsOf(run[r].nodes)
       /\ Len(run[r].stored) = Len(order)
       /\ run[r].stored[Len(order)].id = order[Len(order)]
       /\ run[r].ret.output = run[r].stored[Len(order)].entry.value
       /\ run[r].ret.output = ReturnedOutputs(r)[order[Len(order)]].value

\* C6 as stated: when every node of the order executes without raising, the
\* run returns status success, the stored value of the last node of the order
\* as output, one node_outputs entry per node id and the computed order.
C6_NoRaiseMeansSuccess ==
    \A r \in Runs :
        (HasReturned(r) /\ run[r].built.ok /\ run[r].raised_at = 0) => SuccessResult(r)

\* C6 amended: the same, for an order that is not empty.
C6_NoRaiseOnNonEmptyOrderMeansSuccess ==
    \A r \in Runs :
        (HasReturned(r) /\ run[r].built.ok /\ run[r].raised_at = 0
            /\ run[r].built.order # <<>>) => SuccessResult(r)

\* Three nodes listed against their execution order all ran and the run returned.
C6_Witness ==
    \E r \in Runs :
        /\ HasReturned(r)
        /\ run[r].ret.status = "success"
        /\ Len(run[r].executed) = 3
        /\ run[r].executed # [k \in 1..Len(run[r].nodes) |-> run[r].nodes[k].id]
        /\ run[r].ret.output = "m"

\* C7: when build_execution_graph fails, the run returns status failed with
\* the message of the ordering error and an empty node_outputs, and no node
\* has been executed.
C7_OrderingFailureReturnsEmpty ==
    \A r \in Runs :
        (HasReturned(r) /\ ~run[r].built.ok) =>
            /\ run[r].ret.status = "failed"
            /\ run[r].ret.error = build_execution_graph(run[r].nodes, run[r].edges).error
            /\ ReturnedOutputs(r) = EmptyDict
            /\ run[r].executed = <<>>
            /\ run[r].stored = <<>>

\* A run whose ordering failed returned on a runner whose run before it had
\* stored outputs.
C7_Witness ==
    \E r, o \in Runs :
        /\ r # o
        /\ Runner(r) = Runner(o)
        /\ run[o].pc = "done"
        /\ run[o].stored # <<>>
        /\ sched.last[Runner(r)] = r
        /\ HasReturned(r)
        /\ ~run[r].built.ok
        /\ run[r].ret.status = "failed"

\* C8: within a run the nodes are executed one at a time in execution order,
\* each once, and execute_node is entered for the node at place k+1 only after
\* the output of the node at place k has been stored.
C8_NodesRunSeriallyInOrder ==
    \A r \in Runs :
        /\ IsSeqPrefix(run[r].executed, run[r].built.order)
        /\ Len(run[r].stored) <= Len(run[r].executed)
        /\ Len(run[r].executed) <= Len(run[r].stored) + 1
        /\ \A k \in 1..Len(run[r].stored) : run[r].stored[k].id = run[r].executed[k]
        /\ (HasReturned(r) /\ run[r].ret.status = "success") =>
               /\ run[r].executed = run[r].built.order
               /\ Len(run[r].stored) = Len(run[r].built.order)

\* A run was preempted on its runner and went on to execute its third node,
\* listed first in the node list.
C8_Witness ==
    \E r \in Runs :
        /\ sched.preemptions > 0
        /\ Len(run[r].executed) = 3
        /\ Len(run[r].stored) = 2
        /\ run[r].executed[3] = run[r].nodes[1].id

\* C9: of two runs that follow each other on one runner, or interleave on two
\* runners, each starts with an empty log and an empty node_outputs, returns
\* only its own outputs and log entries, and the node_outputs and the log list
\* handed out by one run are left as they were by the other.
C9_RunsAreIndependent ==
    \A r \in Runs :
        /\ run[r].pc = "log_start" =>
               /\ log_heap[logs[Runner(r)]] = <<>>
               /\ dict_heap[node_outputs[Runner(r)]] = EmptyDict
        /\ HasReturned(r) =>
               /\ ReturnedOutputs(r) = StoredDict(run[r].stored)
               /\ \A id \in DOMAIN ReturnedOutputs(r) :
                      stored_by[run[r].ret.node_outputs][id] = r
        /\ run[r].pc = "done" =>
               /\ run[r].record_logs = run[r].appended
               /\ log_heap[run[r].attached] = run[r].record_logs

\* Two runs of one runner are done, the first with outputs and a log.
C9_Witness ==
    \E r, o \in Runs :
        /\ r # o
        /\ Runner(r) = Runner(o)
        /\ run[r].pc = "done" /\ run[o].pc = "done"
        /\ sched.last[Runner(r)] = r
        /\ run[o].stored # <<>>
        /\ run[r].stored # <<>>
        /\ Len(run[o].record_logs) > 3

\* The workflow of a run is the chain input -> action(log) -> output, its nodes
\* listed in any order.
IsInputLogOutputChain(r) ==
    /\ Len(run[r].nodes) = 3
    /\ \E a, b, c \in 1..3 :
          LET nodes == run[r].nodes
          IN /\ nodes[a].type = "input"
             /\ nodes[b].type = "action"
             /\ Get(nodes[b].data.config, "actionType", "log") = "log"
             /\ nodes[c].type = "output"
             /\ Get(nodes[c].data.config, "format", "raw") = "raw"
             /\ nodes[a].id # nodes[b].id /\ nodes[b].id # nodes[c].id
             /\ nodes[a].id # nodes[c].id
             /\ run[r].edges = <<Edge(nodes[a].id, nodes[b].id),
                                 Edge(nodes[b].id, nodes[c].id)>>

\* The message configured for the log action of a chain.
ChainLogMessage(r) ==
    LET b == CHOOSE k \in 1..3 : run[r].nodes[k].type = "action"
    IN Get(Get(run[r].nodes[b].data.config, "actionConfig", EmptyDict),
           "message", "No message provided")

\* C11 as stated: the chain input -> action(log) -> output run with the global
\* input {value: "hi"} returns status success and the output "hi".
C11_InputValueReachesOutput ==
    \A r \in Runs :
        (HasReturned(r) /\ IsInputLogOutputChain(r) /\ run[r].input_data = [value |-> "hi"])
        => /\ run[r].ret.status = "success"
           /\ run[r].ret.output = "hi"

\* C11 amended: the chain returns status success and, as output, the message
\* configured for the log action; the value of the global input is what the
\* input node returns and what the log action is given, and it goes no further.
C11_LogMessageReachesOutput ==
    \A r \in Runs :
        (HasReturned(r) /\ IsInputLogOutputChain(r) /\ run[r].input_data = [value |-> "hi"])
        => /\ run[r].ret.status = "success"
           /\ run[r].ret.output = ChainLogMessage(r)
           /\ Len(run[r].stored) = 3
           /\ run[r].stored[1].entry = [value |-> "hi"]
           /\ run[r].resolved[2].given = [value |-> "hi"]
           /\ run[r].stored[2].entry = [value |-> ChainLogMessage(r)]
           /\ run[r].resolved[3].given = [value |-> ChainLogMessage(r)]

\* The chain, listed in execution order and run with {value: "hi"}, returned.
C11_Witness ==
    \E r \in Runs :
        /\ HasReturned(r)
        /\ IsInputLogOutputChain(r)
        /\ run[r].nodes[1].type = "input"
        /\ run[r].input_data = [value |-> "hi"]
        /\ run[r].ret.status = "success"
        /\ run[r].ret.output # "hi"

\* C12: for the manual endpoint and for the scheduled trigger, a run whose
\* result has status failed is recorded as a WorkflowRun with status failed
\* and an execution log with status error that carries the error message, and
\* a WorkflowRun with status completed is written only for a result with
\* status success.
C12_FailedRunsAreRecordedFailed ==
    \A r \in Runs :
        run[r].pc = "done" =>
            /\ run[r].ret.status = "failed" =>
                   /\ run[r].record.status = "failed"
                   /\ run[r].record.log_status = "error"
                   /\ run[r].record.error_message = run[r].ret.error
            /\ run[r].record.status = "completed" => run[r].ret.status = "success"

\* The places in the edge list of the edges into a node.
IncomingEdges(id, edges) == {j \in 1..Len(edges) : edges[j].target = id}

\* The shallow merge, in edge-list order, of the outputs of the sources of the
\* edges into a node: a key has the value of the last edge whose source's
\* output holds it.
LastWriterWins(id, edges, outputs) ==
    LET J == {j \in IncomingEdges(id, edges) : edges[j].source \in DOMAIN outputs}
        keys == UNION {DOMAIN outputs[edges[j].source] : j \in J}
    IN [key \in keys |->
           LET last == CHOOSE j \in J :
                           /\ key \in DOMAIN outputs[edges[j].source]
                           /\ \A m \in J : m > j => key \notin DOMAIN outputs[edges[m].source]
           IN outputs[edges[last].source][key]]

\* What a run had stored before it resolved the input of the k-th node.
StoredBefore(r, k) == StoredDict(SubSeq(run[r].stored, 1, k - 1))

\* C13: the input resolved for a node with incoming edges from nodes that have
\* stored their output is the shallow merge of those outputs in edge-list
\* order, the source of the last matching edge winning a key held by several,
\* whatever the order in which the sources were executed.
C13_LastMatchingEdgeWins ==
    \A r \in Runs :
        \A k \in 1..Len(run[r].resolved) :
            LET id == run[r].resolved[k].id
                before == StoredBefore(r, k)
            IN (\E j \in IncomingEdges(id, run[r].edges) :
                    run[r].edges[j].source \in DOMAIN before)
               => run[r].resolved[k].given = LastWriterWins(id, run[r].edges, before)

\* A node with two incoming edges was given the output of the source of the
\* second edge, which was executed before the source of the first and stored
\* another value.
C13_Witness ==
    \E r \in Runs :
        \E k \in 1..Len(run[r].resolved) :
            LET id == run[r].resolved[k].id
                edges == run[r].edges
                before == StoredBefore(r, k)
            IN /\ Len(edges) = 2
               /\ IncomingEdges(id, edges) = {1, 2}
               /\ edges[1].source # edges[2].source
               /\ Pos(run[r].executed, edges[2].source) < Pos(run[r].executed, edges[1].source)
               /\ before[edges[1].source] # before[edges[2].source]
               /\ run[r].resolved[k].given = before[edges[2].source]

\* C14: a node is given the global input of the run exactly when no edge of
\* the edge list targets it; a node with an incoming edge never is.
C14_GlobalInputIffNoIncomingEdge ==
    \A r \in Runs :
        \A k \in 1..Len(run[r].resolved) :
            LET id == run[r].resolved[k].id
            IN /\ run[r].resolved[k].fallback <=> IncomingEdges(id, run[r].edges) = {}
               /\ run[r].resolved[k].fallback => run[r].resolved[k].given = run[r].input_data

\* C15: when two nodes of the node list share an id, the ordering fails with
\* an error that is not the cycle error, the run returns status failed with
\* that error and no node has been executed.
C15_DuplicateIdsGiveTheirOwnError ==
    \A r \in Runs :
        (HasReturned(r) /\ ~UniqueIds(run[r].nodes)) =>
            /\ ~run[r].built.ok
            /\ run[r].built.error # CycleMessage
            /\ run[r].ret.status = "failed"
            /\ run[r].ret.error = run[r].built.error
            /\ run[r].executed = <<>>

\* The node at a place of the order of a run.
NodeAt(r, i) == node_lookup(run[r].nodes, run[r].built.order[i])

\* C16: when the handler of a node raises, execute_node appends an ERROR entry
\* that names the node and carries the message, the exception reaches
\* execute_workflow, which stores nothing for the node and returns status
\* failed with the message; no run in which a handler raised returns success.
C16_HandlerExceptionPropagates ==
    \A r \in Runs :
        run[r].raised_at > 0 =>
            LET i == run[r].raised_at
                id == run[r].built.order[i]
                message == Dispatch(NodeAt(r, i), run[r].resolved[i].given).error
            IN /\ \E k \in 1..Len(run[r].appended) :
                      /\ run[r].appended[k].level = "ERROR"
                      /\ run[r].appended[k].message =
                             "Error executing node " \o id \o ": " \o message
               /\ run[r].pc \in {"except", "return_failed", "get_logs", "done"}
               /\ Len(run[r].stored) = i - 1
               /\ Len(run[r].executed) = i
               /\ HasReturned(r) =>
                      /\ run[r].ret.status = "failed"
                      /\ run[r].ret.error = message

\* The read of a missing file raised in the second node and the run returned.
C16_Witness ==
    \E r \in Runs :
        /\ HasReturned(r)
        /\ run[r].raised_at = 2
        /\ NodeAt(r, 2).type = "action"
        /\ run[r].error = FileNotFoundMessage("missing.txt")
        /\ run[r].ret.status = "failed"
        /\ \E k \in 1..Len(run[r].record_logs) :
               run[r].record_logs[k].message =
                   "Error executing node B: " \o FileNotFoundMessage("missing.txt")

\* A file_operation action that reads a path no file is at.
IsMissingFileRead(node) ==
    /\ node.type = "action"
    /\ Get(node.data.config, "actionType", "log") = "file_operation"
    /\ LET action_config == Get(node.data.config, "actionConfig", EmptyDict)
       IN /\ Get(action_config, "operation", "read") = "read"
          /\ Get(action_config, "filePath", "") \notin (DOMAIN Files) \cup {""}

\* The handler of the node at place i of the order of r has run.
HandlerHasRun(r, i) ==
    \/ i < Len(run[r].executed)
    \/ i = Len(run[r].executed) /\ run[r].pc # "dispatch"

\* C17: a file_operation read of a path that does not exist does not raise:
\* the node's output is a value with success false and the error text, the
\* loop goes on to the next node, and the run does not fail at this node.
C17_MissingFileIsSoftFailure ==
    \A r \in Runs :
        \A i \in 1..Len(run[r].executed) :
            (IsMissingFileRead(NodeAt(r, i)) /\ HandlerHasRun(r, i)) =>
                /\ run[r].raised_at # i
                /\ run[r].pc \notin {"except", "return_failed"}
                /\ HasReturned(r) => run[r].ret.status = "success"
                /\ Len(run[r].stored) >= i =>
                       /\ run[r].stored[i].entry.value.success = "False"
                       /\ run[r].stored[i].entry.value.error # ""

\* A plugin node that names its plugin.
IsPluginNodeWithId(node) ==
    node.type = "plugin" /\ ~Falsy(Get(node.data, "pluginId", PyNone))

\* C18: a plugin node with a pluginId does not fail the run, whatever the
\* plugin reports: the plugin manager is called for it, the node's output is
\* stored, and the loop goes on to the next node.
C18_PluginResultIsStored ==
    \A r \in Runs :
        \A i \in 1..Len(run[r].executed) :
            (IsPluginNodeWithId(NodeAt(r, i)) /\ HandlerHasRun(r, i)) =>
                /\ run[r].calls # <<>>
                /\ run[r].raised_at # i
                /\ run[r].pc \notin {"except", "return_failed"}
                /\ HasReturned(r) => run[r].ret.status = "success"

\* A plugin node that names no plugin.
IsPluginNodeWithoutId(node) ==
    node.type = "plugin" /\ Get(node.data, "pluginId", PyNone) \in {PyNone, ""}

\* C19: a plugin node without a pluginId raises the missing-plugin-id error:
\* an ERROR entry with that message is logged, nothing is stored for the node,
\* the run returns status failed with that message, and the plugin manager
\* has not been called.
C19_MissingPluginIdFailsBeforeCall ==
    \A r \in Runs :
        \A i \in 1..Len(run[r].executed) :
            (IsPluginNodeWithoutId(NodeAt(r, i)) /\ HandlerHasRun(r, i)) =>
                LET missing == "Plugin ID not specified for node " \o run[r].executed[i]
                IN /\ run[r].raised_at = i
                   /\ run[r].error = missing
                   /\ \E k \in 1..Len(run[r].appended) :
                          /\ run[r].appended[k].level = "ERROR"
                          /\ run[r].appended[k].message = missing
                   /\ run[r].calls = <<>>
                   /\ run[r].received = <<>>
                   /\ Len(run[r].stored) = i - 1
                   /\ HasReturned(r) =>
                          /\ run[r].ret.status = "failed"
                          /\ run[r].ret.error = missing

\* A workflow that starts with a plugin node without a pluginId has returned.
C19_Witness ==
    \E r \in Runs :
        /\ HasReturned(r)
        /\ run[r].executed = <<"A">>
        /\ IsPluginNodeWithoutId(NodeAt(r, 1))
        /\ run[r].calls = <<>>
        /\ run[r].ret.status = "failed"
        /\ run[r].ret.error = "Plugin ID not specified for node A"

\* C20: the input a plugin is executed with for a plugin node is the merge of
\* the node's resolved input and the plugin configuration, the configuration
\* giving the value of every key both hold.
C20_ConfigWinsInPluginInput ==
    \A r \in Runs :
        \A i \in 1..Len(run[r].executed) :
            (IsPluginNodeWithId(NodeAt(r, i)) /\ HandlerHasRun(r, i)) =>
                LET config == Get(NodeAt(r, i).data, "config", EmptyDict)
                    input == run[r].resolved[i].given
                IN /\ run[r].received # <<>>
                   /\ LET got == run[r].received[Len(run[r].received)]
                      IN /\ DOMAIN got = (DOMAIN config) \cup (DOMAIN input)
                         /\ \A key \in DOMAIN got :
                                got[key] = IF key \in DOMAIN config THEN config[key]
                                           ELSE input[key]

(***************************************************************************)
(* Claims about the node kinds, stated for one run.                        *)
(***************************************************************************)
\* The configuration of the action of a node.
ActionConfigOf(node) == Get(node.data.config, "actionConfig", EmptyDict)

IsActionOfType(node, action_type) ==
    node.type = "action" /\ Get(node.data.config, "actionType", "log") = action_type

\* The run went on after the node at place i: its output is stored.
WentOnAfter(r, i) == Len(run[r].stored) >= i

\* The run ended failed at the node at place i, nothing stored for it.
FailedAt(r, i) ==
    /\ run[r].raised_at = i
    /\ Len(run[r].stored) = i - 1
    /\ Len(run[r].executed) = i
    /\ HasReturned(r) => run[r].ret.status = "failed"

\* C21: a delay action with a negative duration raises and the run ends failed
\* at that node; a delay with a duration of zero or more completes, its output
\* is stored and the run goes on.
C21_NegativeDelayFails ==
    \A r \in Runs :
        \A i \in 1..Len(run[r].executed) :
            (IsActionOfType(NodeAt(r, i), "delay") /\ HandlerHasRun(r, i)) =>
                IF Get(ActionConfigOf(NodeAt(r, i)), "delaySeconds", 1) < 0
                THEN FailedAt(r, i)
                ELSE run[r].raised_at = 0 /\ (run[r].pc # "store" => WentOnAfter(r, i))

\* The edges that join two nodes of the list.
ExistingEdges(nodes, edges) ==
    SelectSeq(edges, LAMBDA e : e.source \in IdsOf(nodes) /\ e.target \in IdsOf(nodes))

\* C22: an edge whose source or target is no node of the list does not fail
\* the ordering: for unique ids and no cycle among the nodes, the ordering
\* returns an order of all nodes that respects every edge between two nodes.
C22_DanglingEdgeLeavesOrderingAlone ==
    (/\ probe.called
     /\ UniqueIds(probe.nodes)
     /\ ~HasCycle(probe.nodes, ExistingEdges(probe.nodes, probe.edges)))
    => /\ probe.result.ok
       /\ IsPermutationOf(probe.result.order, IdsOf(probe.nodes))
       /\ LET edges == ExistingEdges(probe.nodes, probe.edges)
          IN \A j \in 1..Len(edges) :
                 Pos(probe.result.order, edges[j].source)
                     < Pos(probe.result.order, edges[j].target)

\* A node execute_node has no branch for: an action of an unknown type or a
\* node that is no input, plugin, action or output.
IsUnrecognised(node) ==
    \/ node.type \notin {"input", "plugin", "action", "output"}
    \/ node.type = "action"
         /\ Get(node.data.config, "actionType", "log") \notin
                {"log", "http_request", "transform", "file_operation", "database",
                 "condition", "delay"}

\* The key by which the node was dispatched.
DispatchKey(node) ==
    IF node.type = "action" THEN Get(node.data.config, "actionType", "log") ELSE node.type

\* C23: a node whose action type or kind is not recognised does not raise: one
\* WARNING entry that names the key is logged, None is stored as the node's
\* value, and the loop goes on to the next node.
C23_UnrecognisedNodeIsSkipped ==
    \A r \in Runs :
        \A i \in 1..Len(run[r].executed) :
            (IsUnrecognised(NodeAt(r, i)) /\ HandlerHasRun(r, i)) =>
                /\ run[r].raised_at # i
                /\ \E k \in 1..Len(run[r].appended) :
                       /\ run[r].appended[k].level = "WARNING"
                       /\ run[r].appended[k].message \in
                              {"Unknown action type: " \o DispatchKey(NodeAt(r, i)),
                               "Unknown node type: " \o DispatchKey(NodeAt(r, i))}
                /\ run[r].pc \notin {"except", "return_failed"} \/ run[r].raised_at > i
                /\ run[r].pc # "store" =>
                       /\ WentOnAfter(r, i)
                       /\ run[r].stored[i] =
                              [id |-> run[r].executed[i], entry |-> [value |-> PyNone]]
                /\ (HasReturned(r) /\ run[r].raised_at = 0) => run[r].ret.status = "success"

\* A node of an unknown kind and an action of an unknown type were passed over
\* and the output node after them gave the run its output.
C23_Witness ==
    \E r \in Runs :
        /\ HasReturned(r)
        /\ Len(run[r].executed) = 3
        /\ NodeAt(r, 1).type = "widget"
        /\ IsActionOfType(NodeAt(r, 2), "frobnicate")
        /\ run[r].ret.status = "success"
        /\ run[r].ret.output = "None"
        /\ Cardinality({k \in 1..Len(run[r].appended) :
                            run[r].appended[k].level = "WARNING"}) = 2

\* What C24 says an input node returns.
InputNodeValue(node, given) ==
    IF "value" \in DOMAIN given THEN given.value
    ELSE IF "value" \in DOMAIN node.data.config THEN node.data.config.value
    ELSE ""

\* C24: the step in which the handler of an input node runs returns the value
\* key of the resolved input when it is present, else the value of the node
\* configuration, else the empty string; it appends to the log of the runner
\* and leaves the other lists, the references of the runners and every stored
\* output as they were.
C24_InputNodeReturnsValue ==
    [][\A r \in Runs :
          (/\ run[r].pc = "dispatch"
           /\ run'[r].pc # "dispatch"
           /\ NodeAt(r, run[r].i).type = "input")
          => /\ run'[r].pc = "store"
             /\ run'[r].result = InputNodeValue(NodeAt(r, run[r].i), run[r].node_inputs)
             /\ UNCHANGED <<logs, node_outputs, dict_heap>>
             /\ \A ref \in Refs :
                    IF ref = logs[Runner(r)]
                    THEN IsSeqPrefix(log_heap[ref], log_heap'[ref])
                    ELSE log_heap'[ref] = log_heap[ref]]_vars

\* An input node whose resolved input held no value key returned the value of
\* its configuration, and the run has returned.
C24_Witness ==
    \E r \in Runs :
        /\ HasReturned(r)
        /\ \E i \in 1..Len(run[r].stored) :
               /\ NodeAt(r, i).type = "input"
               /\ "value" \notin DOMAIN run[r].resolved[i].given
               /\ run[r].stored[i].entry.value = "configured"

\* An http_request action with a URL and the method PATCH, in either case,
\* for which execute_http_request has no branch.
IsPatchRequest(node) ==
    /\ IsActionOfType(node, "http_request")
    /\ Get(ActionConfigOf(node), "url", "") # ""
    /\ Get(ActionConfigOf(node), "method", "GET") \in {"patch", "PATCH"}

\* C29: an http_request action with a method that is not supported raises the
\* unsupported-method error: the run ends failed at that node with that
\* message, an ERROR entry carries it, and nothing is stored for the node.
C29_UnsupportedMethodFails ==
    \A r \in Runs :
        \A i \in 1..Len(run[r].executed) :
            (IsPatchRequest(NodeAt(r, i)) /\ HandlerHasRun(r, i)) =>
                /\ FailedAt(r, i)
                /\ run[r].error = "Unsupported HTTP method: PATCH"
                /\ \E k \in 1..Len(run[r].appended) :
                       /\ run[r].appended[k].level = "ERROR"
                       /\ run[r].appended[k].message =
                              "Error executing node " \o run[r].executed[i]
                                  \o ": Unsupported HTTP method: PATCH"
                /\ HasReturned(r) =>
                       /\ run[r].ret.error = "Unsupported HTTP method: PATCH"
                       /\ run[r].executed[i] \notin DOMAIN ReturnedOutputs(r)

\* A run with a PATCH request as its second node has returned failed, the
\* output of the first node in its node_outputs.
C29_Witness ==
    \E r \in Runs :
        /\ HasReturned(r)
        /\ run[r].executed = <<"A", "B">>
        /\ IsPatchRequest(NodeAt(r, 2))
        /\ run[r].ret.status = "failed"
        /\ DOMAIN ReturnedOutputs(r) = {"A"}

\* Some run starts on the runner in this step.
StartsOn(rn) == \E r \in Runs : Runner(r) = rn /\ run[r].pc = "idle" /\ run'[r].pc # "idle"

\* C30: from the reset at the start of a run to the return of its result, every
\* step leaves the log of the run's runner as it was or longer by entries at
\* its end, and these are entries the run appended by log(); the log of a
\* runner loses entries only in the step that starts a run on it.
C30_LogIsAppendOnly ==
    [][/\ \A r \in Runs :
              InFlight(r) =>
                  LET before == log_heap[logs[Runner(r)]]
                      after == log_heap'[logs'[Runner(r)]]
                  IN /\ IsSeqPrefix(before, after)
                     /\ run'[r].appended =
                            run[r].appended \o SubSeq(after, Len(before) + 1, Len(after))
       /\ \A rn \in Runners :
              ~IsSeqPrefix(log_heap[logs[rn]], log_heap'[logs'[rn]]) =>
                  /\ StartsOn(rn)
                  /\ log_heap'[logs'[rn]] = <<>>]_vars

\* A run has logged five entries or more on a runner whose run before it had
\* left a log, and the log of the runner holds what the run appended.
C30_Witness ==
    \E r, o \in Runs :
        /\ r # o
        /\ Runner(r) = Runner(o)
        /\ run[o].pc = "done"
        /\ run[o].record_logs # <<>>
        /\ InFlight(r)
        /\ Len(run[r].appended) >= 5
        /\ log_heap[logs[Runner(r)]] = run[r].appended

(***************************************************************************)
(* Claims about the condition action, checked on execute_node called for   *)
(* one condition node (SpecNode).                                          *)
(***************************************************************************)
ConditionConfig == probe.node.data.config.actionConfig

\* The call was for a condition node of the type and has returned or raised.
ConditionCalled(condition_type) ==
    /\ probe.called
    /\ probe.node.type = "action"
    /\ Get(ConditionConfig, "conditionType", "equals") = condition_type

InputKeyOf(config) == Get(config, "inputKey", "value")

HasInputAndExpected ==
    /\ InputKeyOf(ConditionConfig) \in DOMAIN probe.input_data
    /\ "expectedValue" \in DOMAIN ConditionConfig

TrueValue == Get(ConditionConfig, "trueValue", "true")
FalseValue == Get(ConditionConfig, "falseValue", "false")

\* The input value and the expected value, '' standing for an absent one.
InputValue == Get(probe.input_data, InputKeyOf(ConditionConfig), EmptyString)
ExpectedValue == Get(ConditionConfig, "expectedValue", EmptyString)

\* C25 as stated: a condition of type equals returns trueValue exactly when
\* the input value under inputKey equals expectedValue, and falseValue
\* otherwise.
C25_EqualsComparesValues ==
    (ConditionCalled("equals") /\ HasInputAndExpected) =>
        /\ ~probe.result.raised
        /\ probe.result.value =
              IF PyEq(InputValue, ExpectedValue) THEN TrueValue ELSE FalseValue

\* C25 amended: a condition of type equals returns trueValue exactly when
\* the string form of the input value under inputKey equals the string form
\* of expectedValue (an absent one counting as the empty string), and
\* falseValue otherwise; the two default to "true" and "false".
C25_EqualsComparesStringForms ==
    ConditionCalled("equals") =>
        /\ ~probe.result.raised
        /\ probe.result.value =
              IF PyStr(InputValue) = PyStr(ExpectedValue) THEN TrueValue ELSE FalseValue

\* The number 5 under the default key, compared with the str "5", has given
\* the default trueValue.
C25_Witness ==
    /\ ConditionCalled("equals")
    /\ HasInputAndExpected
    /\ InputKeyOf(ConditionConfig) = "value"
    /\ InputValue.t = "int" /\ InputValue.v = 5
    /\ ExpectedValue.t = "str" /\ ExpectedValue.v = <<"5">>
    /\ "trueValue" \notin DOMAIN ConditionConfig
    /\ probe.result.value = "true"

\* An int or a float, as tenths.
IsNumber(value) == value.t \in {"int", "float"}

Tenths(value) == IF value.t = "int" THEN value.v * 10 ELSE value.v

\* An int of any size, a float, or a str of digits around at most one point.
IsNumeric(value) ==
    \/ value.t \in {"int", "float", "hugeint"}
    \/ value.t = "str" /\ StringToFloat(value.v).ok

\* C26: execute_condition never raises and returns one of the two
\* configured values; for greater_than and less_than an input or an expected
\* value that is not numeric gives falseValue, and two numbers give the
\* value their numeric comparison selects.
C26_ConditionNeverRaises ==
    (probe.called /\ probe.node.type = "action") =>
        /\ ~probe.result.raised
        /\ probe.result.value \in {TrueValue, FalseValue}
        /\ (ConditionCalled("greater_than") /\ IsNumber(InputValue) /\ IsNumber(ExpectedValue)) =>
              probe.result.value =
                  IF Tenths(InputValue) > Tenths(ExpectedValue) THEN TrueValue ELSE FalseValue
        /\ (ConditionCalled("less_than") /\ IsNumber(InputValue) /\ IsNumber(ExpectedValue)) =>
              probe.result.value =
                  IF Tenths(InputValue) < Tenths(ExpectedValue) THEN TrueValue ELSE FalseValue
        /\ ((ConditionCalled("greater_than") \/ ConditionCalled("less_than"))
               /\ ~(IsNumeric(InputValue) /\ IsNumeric(ExpectedValue))) =>
              probe.result.value = FalseValue

(***************************************************************************)
(* Claims about the table format, checked on execute_node called for one   *)
(* output node of format table (SpecNode).                                 *)
(***************************************************************************)
TableCalled == probe.called /\ probe.node.type = "output"

TableData == Get(probe.input_data, "value", EmptyString)

KeysOf(row) == [k \in 1..Len(row.v) |-> row.v[k][1]]

\* A non-empty list of dicts that all have the keys of the first, in its order.
IsUniformTable(data) ==
    /\ data.t = "list"
    /\ Len(data.v) > 0
    /\ \A i \in 1..Len(data.v) : data.v[i].t = "dict"
    /\ \A i \in 1..Len(data.v) : KeysOf(data.v[i]) = KeysOf(data.v[1])

HeaderLine(data) == JoinColumns([k \in 1..Len(data.v[1].v) |-> Concat(data.v[1].v[k][1])])

\* The values of the row in its own order, as strings joined by " | ".
RowLine(row) == JoinColumns([k \in 1..Len(row.v) |-> PyStr(row.v[k][2])])

RowLines(data) == [i \in 1..Len(data.v) |-> RowLine(data.v[i])]

\* The lines each ended by a newline, and the lines with a newline between.
RECURSIVE EndedLines(_), SeparatedLines(_)
EndedLines(lines) ==
    IF lines = <<>> THEN "" ELSE lines[1] \o "\n" \o EndedLines(Tail(lines))

SeparatedLines(lines) ==
    IF lines = <<>> THEN ""
    ELSE IF Len(lines) = 1 THEN lines[1]
    ELSE lines[1] \o "\n" \o SeparatedLines(Tail(lines))

\* C27 as stated: for a non-empty sequence of uniform mappings the table is
\* the header row of the keys followed by one row per element, columns
\* joined by " | ".
C27_TableIsHeaderThenRows ==
    (TableCalled /\ IsUniformTable(TableData)) =>
        /\ ~probe.result.raised
        /\ probe.result.value \in
              {EndedLines(<<HeaderLine(TableData)>> \o RowLines(TableData)),
               SeparatedLines(<<HeaderLine(TableData)>> \o RowLines(TableData))}

\* C27 amended: for a non-empty sequence of uniform mappings the table is
\* the header row of the keys, a rule of dashes one longer than the header
\* row, and one row per element, columns joined by " | " and every line
\* ended by a newline.
C27_TableIsHeaderRuleThenRows ==
    (TableCalled /\ IsUniformTable(TableData)) =>
        /\ ~probe.result.raised
        /\ probe.result.value =
              EndedLines(<<HeaderLine(TableData), Dashes(Len(HeaderLine(TableData)) + 1)>>
                             \o RowLines(TableData))

\* [{a: 1, b: 2}, {a: 3, b: 4}] has been rendered.
C27_Witness ==
    /\ TableCalled
    /\ IsUniformTable(TableData)
    /\ Len(TableData.v) = 2
    /\ KeysOf(TableData.v[1]) = << <<"a">>, <<"b">> >>
    /\ probe.result.value = "a | b\n------\n1 | 2\n3 | 4\n"

\* C28: for a value that is no sequence of uniform mappings (a scalar, an
\* empty sequence, a sequence whose first element is a mapping and a later
\* one is not, or mappings with differing keys) the table format gives the
\* plain string conversion of the value and raises nothing.
C28_NonTableFallsBackToStr ==
    (TableCalled /\ ~IsUniformTable(TableData)) =>
        /\ ~probe.result.raised
        /\ probe.result.value = PyStr(TableData)

\* C31: no step of a run, successful or failed, changes the node list, the
\* edge list or the global input mapping its caller passed in.
C31_CallerDataUnchanged ==
    [][\A r \in Runs :
          /\ run'[r].nodes = run[r].nodes
          /\ run'[r].edges = run[r].edges
          /\ run'[r].input_data = run[r].input_data]_vars

\* A run given a non-empty input has returned after resolving a node's input
\* from upstream outputs and another's from the global input.
C31_Witness ==
    \E r \in Runs :
        /\ HasReturned(r)
        /\ run[r].input_data # EmptyDict
        /\ \E i, j \in 1..Len(run[r].resolved) :
              run[r].resolved[i].fallback /\ ~run[r].resolved[j].fallback

\* The states of section 4.4 by the place of the run in execute_workflow:
\* 0 Idle, 1 Ordering, 2 Executing, 3 leaving the loop or the try block,
\* 4 returned (Completed or Failed).
PhaseRank(pc) ==
    CASE pc = "idle" -> 0
      [] pc \in {"reset_outputs", "log_start", "order", "log_order"} -> 1
      [] pc \in {"loop", "execute_node", "dispatch", "store"} -> 2
      [] pc \in {"final", "log_done", "return_ok", "except", "return_failed"} -> 3
      [] pc \in {"get_logs", "done"} -> 4

\* C32: a run goes from Idle to Ordering and on, never back; it executes the
\* nodes at places 1, 2, ... of the order one after the other, and only
\* while Executing; once started it eventually returns, with status success
\* or failed; and after it has returned its result stays as it is and no
\* further node is executed.
C32_RunReachesOneTerminalState ==
    /\ [][\A r \in Runs :
             LET before == PhaseRank(run[r].pc)
                 after == PhaseRank(run'[r].pc)
             IN /\ before <= after
                /\ before = 0 => after <= 1
                /\ before = 1 /\ after = 2 => run[r].built.ok
                /\ run'[r].executed # run[r].executed =>
                      /\ before = 2 /\ after = 2
                      /\ Len(run'[r].executed) <= Len(run[r].built.order)
                      /\ run'[r].executed =
                            SubSeq(run[r].built.order, 1, Len(run[r].executed) + 1)
                /\ before = 4 =>
                      /\ run'[r].ret = run[r].ret
                      /\ run'[r].executed = run[r].executed]_vars
    /\ \A r \in {"manual"} :
          (run[r].pc # "idle") ~>
              (HasReturned(r) /\ run[r].ret.status \in {"success", "failed"})

\* The run has returned success after executing three nodes.
C32_Witness ==
    /\ HasReturned("manual")
    /\ run["manual"].ret.status = "success"
    /\ Len(run["manual"].executed) = 3

(***************************************************************************)
(* Claims about the API, checked on the requests of SpecApi.               *)
(***************************************************************************)
CreateAnswered == probe.request.endpoint = "create_workflow"

\* The row of the user whose token the request bore, when there is one.
RequestHasUser == probe.request.token \in DOMAIN probe.request.users

RequestUser == probe.request.users[probe.request.token]

WorkflowAdded == Len(probe.workflows) = Len(probe.request.workflows) + 1

UpstreamOf(id, nodes, edges) ==
    {edges[j].source : j \in {k \in 1..Len(edges) :
                                 edges[k].target = id /\ edges[k].source \in IdsOf(nodes)}}

\* C34: while execute_node runs for a node, every node of the list that an
\* edge leads from to it has been executed by the run and has its output in
\* the dict the runner's node_outputs names.
C34_UpstreamOutputsAreStored ==
    \A r \in Runs :
        run[r].pc \in {"execute_node", "dispatch"} =>
            \A s \in UpstreamOf(CurrentId(r), run[r].nodes, run[r].edges) :
                /\ s \in DOMAIN dict_heap[node_outputs[Runner(r)]]
                /\ \E k \in 1..Len(run[r].stored) : run[r].stored[k].id = s

\* The handler of a node with two upstream nodes is about to run.
C34_Witness ==
    \E r \in Runs :
        /\ run[r].pc = "dispatch"
        /\ Cardinality(UpstreamOf(CurrentId(r), run[r].nodes, run[r].edges)) = 2

\* C35: no exception raised by the ordering, by the loop or by a handler
\* leaves execute_workflow; a run that has returned gave a result of status
\* success or failed, and when something was raised the status is failed and
\* the error is the message of what was raised.
C35_ExceptionsBecomeFailedResults ==
    \A r \in Runs :
        /\ run[r].pc # "propagated"
        /\ HasReturned(r) =>
              /\ run[r].ret.status \in {"success", "failed"}
              /\ ~run[r].built.ok =>
                    /\ run[r].ret.status = "failed"
                    /\ run[r].ret.error =
                          build_execution_graph(run[r].nodes, run[r].edges).error
              /\ run[r].raised_at > 0 =>
                    /\ run[r].ret.status = "failed"
                    /\ run[r].ret.error =
                          Dispatch(NodeAt(r, run[r].raised_at),
                                   run[r].resolved[run[r].raised_at].given).error
              /\ (run[r].built.ok /\ run[r].built.order = <<>>) =>
                    /\ run[r].ret.status = "failed"
                    /\ run[r].ret.error = "list index out of range"

\* A run whose plugin call raised a TypeError has returned a failed result
\* that carries its message.
C35_Witness ==
    \E r \in Runs :
        /\ HasReturned(r)
        /\ run[r].raised_at > 0
        /\ run[r].ret.status = "failed"
        /\ run[r].ret.error = PluginCallError

\* C36: a result of status success carries an execution_order that is not
\* empty; a run over an empty node list returns status failed, with the
\* message of the failed read of the last place of the order, and an empty
\* node_outputs.
C36_SuccessHasNonEmptyOrder ==
    \A r \in Runs :
        HasReturned(r) =>
            /\ run[r].ret.status = "success" => run[r].ret.execution_order # <<>>
            /\ run[r].nodes = <<>> =>
                  /\ run[r].ret.status = "failed"
                  /\ run[r].ret.error = "list index out of range"
                  /\ ReturnedOutputs(r) = EmptyDict

\* A run over an empty node list has returned, on a runner whose run before
\* it had stored outputs.
C36_Witness ==
    \E r, o \in Runs :
        /\ r # o
        /\ Runner(r) = Runner(o)
        /\ run[o].pc = "done"
        /\ run[o].stored # <<>>
        /\ HasReturned(r)
        /\ run[r].nodes = <<>>
        /\ run[r].ret.status = "failed"

\* The list self.logs named when the run returned, as it is now.
RunLog(r) ==
    IF run[r].pc = "done" THEN log_heap[run[r].attached] ELSE log_heap[logs[Runner(r)]]

ExecutingMessages(r) ==
    [k \in DOMAIN run[r].executed |->
        ExecutingEntry(node_lookup(run[r].nodes, run[r].executed[k])).message]

IsExecutingMessage(r, message) ==
    \E k \in DOMAIN run[r].nodes : message = ExecutingEntry(run[r].nodes[k]).message

CompletionMessage == "Workflow execution completed successfully"

FailureMessage(r) == "Workflow execution failed: " \o run[r].error

IsTerminalMessage(r, message) == message \in {CompletionMessage, FailureMessage(r)}

MessagesOf(entries) == [k \in DOMAIN entries |-> entries[k].message]

\* C37: the log of a returned run begins with the start entry, holds one
\* "Executing node" entry for each executed node, in the order of execution,
\* which follows the execution order, and ends with its only terminal entry:
\* the INFO completion entry if and only if the result is a success, the
\* ERROR failure entry with the returned error if and only if it is failed.
\* The list is the same once the caller has read it, whatever runs later.
C37_LogIsStartNodesTerminal ==
    \A r \in Runs :
        HasReturned(r) =>
            LET log == RunLog(r)
                last == log[Len(log)]
                messages == MessagesOf(log)
            IN /\ Len(log) >= 2
               /\ log[1].level = "INFO"
               /\ log[1].message = "Starting workflow execution"
               /\ SelectSeq(messages, LAMBDA m : IsExecutingMessage(r, m))
                      = ExecutingMessages(r)
               /\ run[r].built.ok =>
                      run[r].executed = SubSeq(run[r].built.order, 1, Len(run[r].executed))
               /\ ~run[r].built.ok => run[r].executed = <<>>
               /\ Len(SelectSeq(messages, LAMBDA m : IsTerminalMessage(r, m))) = 1
               /\ IsTerminalMessage(r, last.message)
               /\ (last.level = "INFO" /\ last.message = CompletionMessage)
                      <=> run[r].ret.status = "success"
               /\ (last.level = "ERROR" /\ last.message = FailureMessage(r)
                       /\ run[r].ret.error = run[r].error)
                      <=> run[r].ret.status = "failed"
               /\ run[r].pc = "done" => log = run[r].record_logs

\* A run that executed two nodes and failed at the second has been read by
\* its caller, and a later run of the same runner has logged entries.
C37_Witness ==
    \E r, o \in Runs :
        /\ r # o
        /\ Runner(r) = Runner(o)
        /\ run[r].pc = "done"
        /\ run[r].ret.status = "failed"
        /\ Len(run[r].executed) = 2
        /\ run[o].appended # <<>>

(***************************************************************************)
(* The schedule endpoints of main.py (545-670) and the registry of jobs    *)
(* they keep (scheduled_jobs, line 46; add_schedule_job and                *)
(* remove_schedule_job, 746-778).  Requests are answered one after the     *)
(* other.  probe holds the workflow_schedules table, the jobs of the       *)
(* scheduler, the keys of scheduled_jobs and the request just answered.    *)
(***************************************************************************)
ScheduleIds == 1..MaxSchedules

\* A cron expression is the sequence of its fields, split at white space.
CronField == {"*", "0", "9", "*/5"}

CronExpressions ==
    {<<"0", "9", "*", "*", "*">>,            \* five fields
     <<"0", "9", "*", "*", "*", "*/5">>,     \* six fields, the last for seconds
     <<"every", "day">>}

\* main.py 741: croniter(cron_expr) takes five fields, or six with seconds.
croniter(cron_expr) ==
    [raised |-> ~(/\ Len(cron_expr) \in {5, 6}
                  /\ \A k \in DOMAIN cron_expr : cron_expr[k] \in CronField)]

\* main.py 738-744.
validate_cron_expression(cron_expr) == ~croniter(cron_expr).raised

\* main.py 758: CronTrigger.from_crontab(expr) raises ValueError unless the
\* expression has five fields.
from_crontab(expr) ==
    [raised |-> ~(/\ Len(expr) = 5
                  /\ \A k \in DOMAIN expr : expr[k] \in CronField)]

\* main.py 759, 771: f"schedule_{schedule.id}".
JobId(schedule_id) == <<"schedule", schedule_id>>

\* main.py 746-766.
add_schedule_job(schedule, registry) ==
    IF schedule.is_active = 0 THEN registry
    ELSE IF ~validate_cron_expression(schedule.cron_expression) THEN registry
    ELSE IF from_crontab(schedule.cron_expression).raised THEN registry
    ELSE [jobs |-> registry.jobs \cup {JobId(schedule.id)},
          scheduled_jobs |-> registry.scheduled_jobs \cup {schedule.id}]

\* main.py 768-778.
remove_schedule_job(schedule_id, registry) ==
    [jobs |-> registry.jobs \ {JobId(schedule_id)},
     scheduled_jobs |-> registry.scheduled_jobs \ {schedule_id}]

\* The users who send schedule requests, and the one stored workflow.
Requesters ==
    [ann |-> [id |-> "ann", role |-> "creator"],
     bob |-> [id |-> "bob", role |-> "creator"]]

StoredWorkflows ==
    [w \in {1} |-> [owner_id |-> "ann",
                    shares |-> {[user_id |-> "bob", permission_level |-> "view"]}]]

WorkflowIds == {1, 2}

\* models.py 42-49.
can_edit_workflow(user, workflow) ==
    \/ has_role(user, "admin")
    \/ workflow.owner_id = user.id /\ has_role(user, "creator")
    \/ \E share \in workflow.shares :
           share.user_id = user.id /\ share.permission_level = "edit"

\* auth.py 113-138 for permission_type "edit": the status it answers with.
check_workflow_permission(workflow_id, current_user) ==
    IF workflow_id \notin DOMAIN StoredWorkflows THEN 404
    ELSE IF ~can_edit_workflow(current_user, StoredWorkflows[workflow_id]) THEN 403
    ELSE 200

NoRow == [row |-> "none", id |-> 0, workflow_id |-> 0,
          cron_expression |-> <<>>, is_active |-> 0]

\* schemas.py 95-99: the fields of WorkflowScheduleCreate the registry
\* depends on; is_active is an int.
ScheduleRequests == [cron_expression : CronExpressions, is_active : {0, 1, 2}]

Registry == [jobs |-> probe.jobs, scheduled_jobs |-> probe.scheduled_jobs]

InitSchedule ==
    /\ logs = [rn \in Runners |-> rn]
    /\ node_outputs = [rn \in Runners |-> rn]
    /\ log_heap = [ref \in Refs |-> <<>>]
    /\ dict_heap = [ref \in Refs |-> EmptyDict]
    /\ stored_by = [ref \in Refs |-> EmptyDict]
    /\ run = [r \in Runs |-> Frame("workflow_runner", Workflow(<<>>, <<>>), EmptyDict)]
    /\ sched = NoSched
    /\ probe = [schedules |-> [id \in ScheduleIds |-> NoRow],
                next_id |-> 1,
                jobs |-> {},
                scheduled_jobs |-> {},
                request |-> [endpoint |-> "none", schedule_id |-> 0, status |-> 0,
                             scheduled_jobs |-> {}]]

\* The request just answered, with the registry as it was when it came.
ScheduleAnswered(endpoint, schedule_id, status) ==
    [endpoint |-> endpoint, schedule_id |-> schedule_id, status |-> status,
     scheduled_jobs |-> probe.scheduled_jobs]

\* main.py 592, 630, 652: the row of the id, if the table holds one.
IsStored(schedule_id) ==
    schedule_id \in ScheduleIds /\ probe.schedules[schedule_id].row = "stored"

\* main.py 545-575.
create_workflow_schedule(user, workflow_id, schedule) ==
    LET permission == check_workflow_permission(workflow_id, Requesters[user])
        status == IF permission # 200 THEN permission
                  ELSE IF ~validate_cron_expression(schedule.cron_expression) THEN 400
                  ELSE 200
        id == probe.next_id
        db_schedule == [row |-> "stored", id |-> id, workflow_id |-> workflow_id,
                        cron_expression |-> schedule.cron_expression,
                        is_active |-> schedule.is_active]
        added == IF schedule.is_active # 0
                 THEN add_schedule_job(db_schedule, Registry) ELSE Registry
    IN /\ status = 200 => id <= MaxSchedules
       /\ probe' = IF status # 200
                   THEN [probe EXCEPT
                            !.request = ScheduleAnswered("create", 0, status)]
                   ELSE [probe EXCEPT
                            !.schedules = [@ EXCEPT ![id] = db_schedule],
                            !.next_id = id + 1,
                            !.jobs = added.jobs,
                            !.scheduled_jobs = added.scheduled_jobs,
                            !.request = ScheduleAnswered("create", id, status)]
       /\ UNCHANGED <<logs, node_outputs, log_heap, dict_heap, stored_by, run, sched>>

\* main.py 589-624.
update_workflow_schedule(user, schedule_id, schedule) ==
    LET status == IF ~IsStored(schedule_id) THEN 404
                  ELSE LET permission ==
                               check_workflow_permission(
                                   probe.schedules[schedule_id].workflow_id,
                                   Requesters[user])
                       IN IF permission # 200 THEN permission
                          ELSE IF ~validate_cron_expression(schedule.cron_expression)
                               THEN 400
                          ELSE 200
        removed == remove_schedule_job(schedule_id, Registry)
        db_schedule == [probe.schedules[schedule_id] EXCEPT
                            !.cron_expression = schedule.cron_expression,
                            !.is_active = schedule.is_active]
        added == IF schedule.is_active # 0
                 THEN add_schedule_job(db_schedule, removed) ELSE removed
    IN /\ probe' = IF status # 200
                   THEN [probe EXCEPT
                            !.request = ScheduleAnswered("update", schedule_id, status)]
                   ELSE [probe EXCEPT
                            !.schedules = [@ EXCEPT ![schedule_id] = db_schedule],
                            !.jobs = added.jobs,
                            !.scheduled_jobs = added.scheduled_jobs,
                            !.request = ScheduleAnswered("update", schedule_id, status)]
       /\ UNCHANGED <<logs, node_outputs, log_heap, dict_heap, stored_by, run, sched>>

\* main.py 626-645.
delete_workflow_schedule(user, schedule_id) ==
    LET status == IF ~IsStored(schedule_id) THEN 404
                  ELSE check_workflow_permission(
                           probe.schedules[schedule_id].workflow_id, Requesters[user])
        removed == remove_schedule_job(schedule_id, Registry)
    IN /\ probe' = IF status # 200
                   THEN [probe EXCEPT
                            !.request = ScheduleAnswered("delete", schedule_id, status)]
                   ELSE [probe EXCEPT
                            !.schedules = [@ EXCEPT ![schedule_id].row = "deleted"],
                            !.jobs = removed.jobs,
                            !.scheduled_jobs = removed.scheduled_jobs,
                            !.request = ScheduleAnswered("delete", schedule_id, status)]
       /\ UNCHANGED <<logs, node_outputs, log_heap, dict_heap, stored_by, run, sched>>

\* main.py 647-670.
toggle_workflow_schedule(user, schedule_id) ==
    LET status == IF ~IsStored(schedule_id) THEN 404
                  ELSE check_workflow_permission(
                           probe.schedules[schedule_id].workflow_id, Requesters[user])
        schedule == [probe.schedules[schedule_id] EXCEPT
                         !.is_active = IF @ = 0 THEN 1 ELSE 0]
        updated == IF schedule.is_active # 0
                   THEN add_schedule_job(schedule, Registry)
                   ELSE remove_schedule_job(schedule_id, Registry)
    IN /\ probe' = IF status # 200
                   THEN [probe EXCEPT
                            !.request = ScheduleAnswered("toggle", schedule_id, status)]
                   ELSE [probe EXCEPT
                            !.schedules = [@ EXCEPT ![schedule_id] = schedule],
                            !.jobs = updated.jobs,
                            !.scheduled_jobs = updated.scheduled_jobs,
                            !.request = ScheduleAnswered("toggle", schedule_id, status)]
       /\ UNCHANGED <<logs, node_outputs, log_heap, dict_heap, stored_by, run, sched>>

NextSchedule ==
    \/ \E user \in DOMAIN Requesters, workflow_id \in WorkflowIds,
          schedule \in ScheduleRequests :
           create_workflow_schedule(user, workflow_id, schedule)
    \/ \E user \in DOMAIN Requesters, schedule_id \in 1..(MaxSchedules + 1),
          schedule \in ScheduleRequests :
           update_workflow_schedule(user, schedule_id, schedule)
    \/ \E user \in DOMAIN Requesters, schedule_id \in 1..(MaxSchedules + 1) :
           delete_workflow_schedule(user, schedule_id)
    \/ \E user \in DOMAIN Requesters, schedule_id \in 1..(MaxSchedules + 1) :
           toggle_workflow_schedule(user, schedule_id)

SpecSchedule == InitSchedule /\ [][NextSchedule]_vars

\* C38: after any sequence of create, update, toggle and delete schedule
\* requests, scheduled_jobs has an entry for a schedule id exactly when the
\* table holds that schedule, active and with a cron expression that
\* validate_cron_expression accepts; and a request refused with 400 for its
\* cron expression leaves scheduled_jobs as it was.
C38_JobIffActiveValidSchedule ==
    /\ \A id \in ScheduleIds :
           id \in probe.scheduled_jobs
               <=> /\ probe.schedules[id].row = "stored"
                   /\ probe.schedules[id].is_active # 0
                   /\ validate_cron_expression(probe.schedules[id].cron_expression)
    /\ probe.request.status = 400 =>
           probe.scheduled_jobs = probe.request.scheduled_jobs

(***************************************************************************)
(* Registration with the workflow plugin manager (plugin_system.py 80-98,  *)
(* plugin_manager.py 61-76) and execute_plugin (plugin_manager.py 91-125). *)
(* probe holds the keys of self.plugins and the call just made.            *)
(***************************************************************************)
\* plugins.py 13, 168, 322: the ids of the built-in plugins.
BuiltinPlugins == {"http_request", "file_operation", "delay"}

PluginIds == BuiltinPlugins \cup {"custom"}

PluginInputs == {EmptyDict, [value |-> "hi"]}

InitPlugin ==
    /\ logs = [rn \in Runners |-> rn]
    /\ node_outputs = [rn \in Runners |-> rn]
    /\ log_heap = [ref \in Refs |-> <<>>]
    /\ dict_heap = [ref \in Refs |-> EmptyDict]
    /\ stored_by = [ref \in Refs |-> EmptyDict]
    /\ run = [r \in Runs |-> Frame("workflow_runner", Workflow(<<>>, <<>>), EmptyDict)]
    /\ sched = NoSched
    /\ probe = [plugins |-> {},
                call |-> [method |-> "none", plugin_id |-> PyNone, plugins |-> {},
                          result |-> PyNone, received |-> <<>>]]

\* The call just made, with the keys of self.plugins as they were before it.
Called(method, plugin_id, result, received) ==
    [method |-> method, plugin_id |-> plugin_id, plugins |-> probe.plugins,
     result |-> result, received |-> received]

\* plugin_system.py 80-89.
register_plugin(plugin_id) ==
    /\ probe' = [plugins |-> probe.plugins \cup {plugin_id},
                 call |-> Called("register_plugin", plugin_id, PyNone, <<>>)]
    /\ UNCHANGED <<logs, node_outputs, log_heap, dict_heap, stored_by, run, sched>>

\* plugin_system.py 91-97.
unregister_plugin(plugin_id) ==
    /\ probe' = [plugins |-> probe.plugins \ {plugin_id},
                 call |-> Called("unregister_plugin", plugin_id, PyNone, <<>>)]
    /\ UNCHANGED <<logs, node_outputs, log_heap, dict_heap, stored_by, run, sched>>

\* plugin_manager.py 61-76.
load_builtin_plugins ==
    /\ probe' = [plugins |-> probe.plugins \cup BuiltinPlugins,
                 call |-> Called("load_builtin_plugins", PyNone, PyNone, <<>>)]
    /\ UNCHANGED <<logs, node_outputs, log_heap, dict_heap, stored_by, run, sched>>

\* plugin_manager.py 91-125, called by a client of the manager.
CallPluginManager(plugin_id, input_data) ==
    /\ LET answer == execute_plugin(plugin_id, input_data)
       IN probe' = [plugins |-> probe.plugins,
                    call |-> Called("execute_plugin", plugin_id,
                                    answer.result, answer.received)]
    /\ UNCHANGED <<logs, node_outputs, log_heap, dict_heap, stored_by, run, sched>>

NextPlugin ==
    \/ \E plugin_id \in PluginIds : register_plugin(plugin_id)
    \/ \E plugin_id \in PluginIds : unregister_plugin(plugin_id)
    \/ load_builtin_plugins
    \/ \E plugin_id \in PluginIds, input_data \in PluginInputs :
           CallPluginManager(plugin_id, input_data)

SpecPlugin == InitPlugin /\ [][NextPlugin]_vars

PluginNotFound(plugin_id) ==
    [success |-> "False", error |-> "Plugin not found: " \o plugin_id]

\* C39: execute_plugin called with the id of a plugin that is registered
\* (by register_plugin or load_builtin_plugins, and not unregistered since)
\* invokes the plugin's execute, and answers 'Plugin not found' for no id
\* but one that is not registered at the time of the call.
C39_RegisteredPluginIsExecuted ==
    probe.call.method = "execute_plugin" =>
        /\ probe.call.plugin_id \in probe.call.plugins =>
               probe.call.received # <<>>
        /\ probe.call.result = PluginNotFound(probe.call.plugin_id) =>
               probe.call.plugin_id \notin probe.call.plugins

=============================================================================
